---- MODULE Spec2Model ----
(***************************************************************************)
(* State-machine model of the GCN -> SPIR-V shader compiler (GcnCompiler)  *)
(* of shadPS4.  A compiler instance is a record whose fields are the       *)
(* members of the C++ class; every emit* method is an operator from        *)
(* instance record to instance record.  The emitted SPIR-V module is the   *)
(* sequence of operations handed to the module builder.                    *)
(***************************************************************************)
EXTENDS Integers, Sequences, FiniteSets, TLC

VARIABLES gc, tokens, pos, sem, eq, tc

vars == <<gc, tokens, pos, sem, eq, tc>>

\* ---------------------------------------------------------------- bounds

\* Longest instruction list of a Code token in the register specification.
MaxIns == 2
\* Longest token list of the control-flow specification.
MaxTokens == 3
\* Most system-value requests in one Code token (system-value specification).
MaxSvLoads == 2
\* Longest instruction list of a Code token in the operand specification.
MaxOps == 1

\* ------------------------------------------------------------- utilities

Max(a, b) == IF a >= b THEN a ELSE b

RECURSIVE SeqsUpTo(_, _)
\* All sequences over S of length 0..n.
SeqsUpTo(S, n) ==
    IF n = 0 THEN {<<>>}
    ELSE LET shorter == SeqsUpTo(S, n - 1)
         IN  shorter \cup {Append(s, x) : s \in {t \in shorter : Len(t) = n - 1}, x \in S}

\* One operation handed to the SPIR-V module builder.
Op(op, s, a, b) == [op |-> op, s |-> s, a |-> a, b |-> b]

Instances == {1, 2}

\* Register indices of the resource arrays (user-data registers).
Regs == 0 .. 3

\* GcnRegMask: the set of selected components.
MaskSelect(n) == {n}
MaskFirstN(n) == 0 .. (n - 1)
PopCount(mask) == Cardinality(mask)

Builtins ==
    {"VertexIndex", "BaseVertex", "InstanceIndex", "BaseInstance",
     "FragCoord", "FrontFacing", "PrimitiveId", "SampleId", "Layer",
     "ViewportIndex", "GlobalInvocationId", "WorkgroupId",
     "LocalInvocationId", "LocalInvocationIndex", "SubgroupId",
     "SubgroupLocalInvocationId", "SubgroupEqMask"}

\* ------------------------------------------------------- inputs: operands

Operand(field, type, code) == [field |-> field, type |-> type, code |-> code]

NoOperand == Operand("None", "Float32", 0)

isDoubleType(type) == type \in {"Sint64", "Uint64", "Float64"}

\* A decoded instruction.  src/dst are the operand descriptors; sv/mask say
\* that the instruction's handler requests a system value; dyn says that it
\* addresses a GPR through a computed index (relReg + offset).
Ins(category, length, src, dst) ==
    [category |-> category, length |-> length, src |-> src, dst |-> dst,
     sv |-> "None", mask |-> {}, dyn |-> "None", relReg |-> NoOperand,
     offset |-> 0, dynStore |-> FALSE, export |-> "None"]

SvIns(sv, mask) ==
    [Ins("VectorALU", 4, <<>>, <<>>) EXCEPT !.sv = sv, !.mask = mask]

DynIns(array, relReg, offset, store) ==
    [Ins("VectorALU", 8, <<>>, <<>>) EXCEPT
        !.dyn = array, !.relReg = relReg, !.offset = offset, !.dynStore = store]

ExportIns(target, start) ==
    [Ins("Export", 8, <<Operand("VectorGPR", "Float32", start),
                        Operand("VectorGPR", "Float32", start + 1),
                        Operand("VectorGPR", "Float32", start + 2),
                        Operand("VectorGPR", "Float32", start + 3)>>, <<>>)
        EXCEPT !.export = target]

\* ------------------------------------------------------- inputs: tokens

Token(kind) == [kind |-> kind, pc |-> 0, insList |-> <<>>]

CodeToken(pc, insList) == [kind |-> "Code", pc |-> pc, insList |-> insList]

TokenKinds ==
    {"Code", "Loop", "Block", "If", "IfNot", "Else", "Branch", "End",
     "SetValue", "Variable", "Invalid"}

\* ------------------------------------------------- inputs: resource table

Resource(usage, type, startRegister, inEud) ==
    [usage |-> usage, type |-> type, startRegister |-> startRegister,
     inEud |-> inEud]

Semantic(semantic, dest_vgpr, num_elements) ==
    [semantic |-> semantic, dest_vgpr |-> dest_vgpr,
     num_elements |-> num_elements]

\* Everything the constructor is given: program type, resource table of the
\* header, shader meta, module options, analysis info.
Config(type, resTable) ==
    [type |-> type, resTable |-> resTable, separateSubgroup |-> FALSE,
     semantics |-> <<>>, paramCount |-> 0, mrtCount |-> 0,
     psInputCount |-> 0,
     perspSampleEn |-> FALSE, perspCenterEn |-> FALSE,
     posXEn |-> FALSE, posYEn |-> FALSE,
     enableTgidX |-> FALSE, enableTgidY |-> FALSE, enableTgidZ |-> FALSE,
     threadIdInGroupCount |-> 0, userSgprCount |-> 0]

\* ------------------------------------------------ the compiler instance

NoValue == [ctype |-> "None", ccount |-> 0, comps |-> <<>>]

GprArray == [arrayLength |-> 0, arrayLengthId |-> 0, arrayId |-> 0]

\* The object after the constructor's member initialisers (config.cpp:159-163)
\* and before its body.
NewCompiler(cfg) ==
    [cfg |-> cfg,
     fatal |-> FALSE,
     nextId |-> 1,
     module |-> <<>>,
     code |-> <<>>,
     m_entryPointId |-> 0,
     m_insideFunction |-> FALSE,
     m_entryPointInterfaces |-> <<>>,
     m_sArray |-> GprArray,
     m_vArray |-> GprArray,
     m_perVertexOut |-> 0,
     functionId |-> 0,
     fetchFuncId |-> 0,
     builtin |-> [b \in Builtins |-> 0],
     m_resourceSlots |-> <<>>,
     m_buffersDcl |-> [r \in Regs |-> 0],
     m_buffers |-> [r \in Regs |-> 0],
     m_texturesDcl |-> [r \in Regs |-> 0],
     m_textures |-> [r \in Regs |-> 0],
     m_samplersDcl |-> [r \in Regs |-> 0],
     m_samplers |-> [r \in Regs |-> 0],
     m_inputs |-> [r \in Regs |-> 0],
     blocks |-> <<>>,
     m_programCounter |-> 0,
     ret |-> NoValue,
     trace |-> <<>>]

\* An instance that does not exist in this run.
Absent == [NewCompiler(Config("VS", <<>>)) EXCEPT !.fatal = TRUE]

\* UNREACHABLE / ASSERT_MSG failure: the compilation aborts.
Abort(c) == [c EXCEPT !.fatal = TRUE]

\* Run F on c unless the compilation has already aborted.
Then(c, F(_)) == IF c.fatal THEN c ELSE F(c)

Emit(c, e) == [c EXCEPT !.module = Append(@, e)]

\* History of the handlers entered (not part of the module).
Trace(c, e) == [c EXCEPT !.trace = Append(@, e)]

\* m_module.allocateId(): the id handed out is c.nextId.
allocateId(c) == [c EXCEPT !.nextId = @ + 1]

\* ------------------------------------------------- virtual register file

ArrayName(isVgpr) == IF isVgpr THEN "v" ELSE "s"

\* emitGetGprPtr<IsVgpr>(u32 indexId): a pointer into the array at an index
\* that is a SPIR-V id.  dynamic = 1 when the id is a computed value, 0 when
\* it is the constant of a static register code.
emitGetGprPtrIdx(c, isVgpr, index, dynamic) ==
    Emit(c, Op("OpAccessChain", ArrayName(isVgpr), index, dynamic))

\* The mutation of C2: the length is assigned, not maximised.
growArrayLength_Assign(arr, code) ==
    [arr EXCEPT !.arrayLength = code + 1]

\* arrayPtr->arrayLength = std::max(arrayPtr->arrayLength, reg.code + 1)
growArrayLength(arr, code) ==
    [arr EXCEPT !.arrayLength = Max(@, code + 1)]

\* emitGetGprPtr<IsVgpr>(const GcnInstOperand& reg)
emitGetGprPtr(c, isVgpr, code) ==
    LET grown == IF isVgpr
                 THEN [c EXCEPT !.m_vArray = growArrayLength(@, code)]
                 ELSE [c EXCEPT !.m_sArray = growArrayLength(@, code)]
    IN  emitGetGprPtrIdx(grown, isVgpr, code, 0)

\* emitGprLoad<IsVgpr>(const GcnInstOperand&): pointer, then emitValueLoad.
emitGprLoad(c, isVgpr, code) ==
    Emit(emitGetGprPtr(c, isVgpr, code), Op("OpLoad", ArrayName(isVgpr), code, 0))

\* emitGprStore<IsVgpr>(const GcnInstOperand&, value): pointer, then
\* emitValueStore with the mask select(0) on a one-component pointer.
emitGprStore(c, isVgpr, code) ==
    Emit(emitGetGprPtr(c, isVgpr, code), Op("OpStore", ArrayName(isVgpr), code, 0))

\* emitGprLoad<IsVgpr>(u32 indexId)
emitGprLoadIdx(c, isVgpr, index) ==
    Emit(emitGetGprPtrIdx(c, isVgpr, index, 1),
         Op("OpLoad", ArrayName(isVgpr), index, 1))

\* emitGprStore<IsVgpr>(u32 indexId, value)
emitGprStoreIdx(c, isVgpr, index) ==
    Emit(emitGetGprPtrIdx(c, isVgpr, index, 1),
         Op("OpStore", ArrayName(isVgpr), index, 1))

RECURSIVE emitGprArrayStore(_, _, _, _)
\* emitGprArrayStore<IsVgpr>(start, value, mask): one emitGprStore per
\* component of the extracted vector, on consecutive register codes.
emitGprArrayStore(c, isVgpr, start, count) ==
    IF count = 0 THEN c
    ELSE emitGprArrayStore(emitGprStore(c, isVgpr, start), isVgpr,
                           start + 1, count - 1)

InlineConstFields ==
    {"ConstZero", "SignedConstIntPos", "SignedConstIntNeg",
     "ConstFloatPos_0_5", "ConstFloatNeg_0_5", "ConstFloatPos_1_0",
     "ConstFloatNeg_1_0", "ConstFloatPos_2_0", "ConstFloatNeg_2_0",
     "ConstFloatPos_4_0", "ConstFloatNeg_4_0"}

\* The 64-bit halves a state-register access selects:
\* firstN(is64 ? 2 : 1) for the Lo field, select(1) for the Hi field.
StateMask(field, is64) ==
    IF field \in {"VccHi", "ExecHi"} THEN MaskSelect(1)
    ELSE MaskFirstN(IF is64 THEN 2 ELSE 1)

StateName(field) == IF field \in {"VccLo", "VccHi"} THEN "vcc" ELSE "exec"

\* emitRegisterLoad(const GcnInstOperand& reg)
emitRegisterLoad(c, reg) ==
    IF reg.type = "Float64" THEN Abort(c)
    ELSE LET is64 == isDoubleType(reg.type)
             gpr(isVgpr) ==
                 LET low == emitGprLoad(c, isVgpr, reg.code)
                 IN  IF is64 THEN emitGprLoad(low, isVgpr, reg.code + 1) ELSE low
         IN  CASE reg.field = "ScalarGPR" -> gpr(FALSE)
               [] reg.field = "VectorGPR" -> gpr(TRUE)
               [] reg.field \in {"VccLo", "VccHi", "ExecLo", "ExecHi"} ->
                    Emit(c, Op("StateLoad", StateName(reg.field),
                               PopCount(StateMask(reg.field, is64)), 0))
               [] reg.field = "M0" -> Emit(c, Op("OpLoad", "m0", 0, 0))
               [] reg.field \in InlineConstFields ->
                    Emit(c, Op("Const", reg.field, reg.code, 0))
               [] reg.field = "LiteralConst" ->
                    IF is64 THEN Abort(c)
                    ELSE Emit(c, Op("Const", reg.field, reg.code, 0))
               [] OTHER -> Abort(c)

\* emitRegisterStore(const GcnInstOperand& reg, const GcnRegisterValuePair&)
emitRegisterStore(c, reg) ==
    LET is64 == isDoubleType(reg.type)
        gpr(isVgpr) ==
            LET low == emitGprStore(c, isVgpr, reg.code)
            IN  IF is64 THEN emitGprStore(low, isVgpr, reg.code + 1) ELSE low
    IN  CASE reg.field = "ScalarGPR" -> gpr(FALSE)
          [] reg.field = "VectorGPR" -> gpr(TRUE)
          [] reg.field \in {"VccLo", "VccHi", "ExecLo", "ExecHi"} ->
               Emit(c, Op("StateStore", StateName(reg.field),
                          PopCount(StateMask(reg.field, is64)), 0))
          [] reg.field = "M0" -> Emit(c, Op("OpStore", "m0", 0, 0))
          [] OTHER -> Abort(c)

\* emitIndexLoad(const GcnRegIndex& index): the index value is relReg's
\* content plus the offset, or the constant offset when there is no relReg.
emitIndexLoad(c, relReg, offset) ==
    IF relReg.field # "None"
    THEN LET loaded == emitRegisterLoad(c, relReg)
         IN  IF offset # 0
             THEN Then(loaded, LAMBDA d : Emit(d, Op("OpIAdd", "", offset, 0)))
             ELSE loaded
    ELSE Emit(c, Op("Const", "index", offset, 0))

\* ----------------------------------------------------------- value layer

Value(ctype, ccount, comps) == [ctype |-> ctype, ccount |-> ccount, comps |-> comps]

\* The selected components in ascending order.
RECURSIVE MaskIndices(_)
MaskIndices(mask) ==
    IF mask = {} THEN <<>>
    ELSE LET lo == CHOOSE i \in mask : \A j \in mask : i <= j
         IN  <<lo>> \o MaskIndices(mask \ {lo})

\* emitRegisterExtend(value, size): a scalar replicated into `size` components.
emitRegisterExtend(value, size) ==
    IF size = 1 THEN value
    ELSE Value(value.ctype, size, [i \in 1 .. size |-> value.comps[1]])

\* emitRegisterExtract(value, mask) = emitRegisterSwizzle(value, (0,1,2,3), mask)
emitRegisterExtract(value, mask) ==
    IF value.ccount = 1 THEN emitRegisterExtend(value, PopCount(mask))
    ELSE LET indices == MaskIndices(mask)
             identity == /\ Len(indices) = value.ccount
                         /\ \A i \in 1 .. Len(indices) : indices[i] = i - 1
         IN  IF identity THEN value
             ELSE Value(value.ctype, Len(indices),
                        [i \in 1 .. Len(indices) |-> value.comps[indices[i] + 1]])

\* emitRegisterBitcast(srcValue, dstType): the bits are kept, the type tag
\* changes; between 32-bit types the component count stays.
emitRegisterBitcast(srcValue, dstType) ==
    IF srcValue.ctype = dstType THEN srcValue
    ELSE Value(dstType, srcValue.ccount, srcValue.comps)

\* srcMask.firstSet()
MaskFirstSet(mask) == CHOOSE i \in mask : \A j \in mask : i <= j

\* The mutation of C17: the shuffle takes the source component at the
\* destination's own index instead of the next unused source component.
emitRegisterInsert_SameIndex(dstValue, srcValue, srcMask) ==
    CASE PopCount(srcMask) = 0 -> dstValue
      [] dstValue.ccount = 1 ->
            IF 0 \in srcMask THEN Value(dstValue.ctype, 1, srcValue.comps)
            ELSE dstValue
      [] srcValue.ccount = 1 ->
            [dstValue EXCEPT !.comps[MaskFirstSet(srcMask) + 1] = srcValue.comps[1]]
      [] OTHER ->
            [dstValue EXCEPT !.comps =
                [i \in 1 .. dstValue.ccount |->
                    IF (i - 1) \in srcMask /\ i <= srcValue.ccount
                    THEN srcValue.comps[i]
                    ELSE dstValue.comps[i]]]

\* emitRegisterInsert(dstValue, srcValue, srcMask): the result has the
\* destination's type.  In the vector case component i of the result is the
\* next unused component of the source when the mask selects i, component i
\* of the destination otherwise (OpVectorShuffle over both vectors).
emitRegisterInsert(dstValue, srcValue, srcMask) ==
    CASE PopCount(srcMask) = 0 -> dstValue
      [] dstValue.ccount = 1 ->
            IF 0 \in srcMask THEN Value(dstValue.ctype, 1, srcValue.comps)
            ELSE dstValue
      [] srcValue.ccount = 1 ->
            [dstValue EXCEPT !.comps[MaskFirstSet(srcMask) + 1] = srcValue.comps[1]]
      [] OTHER ->
            [dstValue EXCEPT !.comps =
                [i \in 1 .. dstValue.ccount |->
                    IF (i - 1) \in srcMask
                    THEN srcValue.comps[PopCount(srcMask \cap (0 .. (i - 1)))]
                    ELSE dstValue.comps[i]]]

\* A pointer to a variable: its name and the type of what it points to.
Pointer(name, ctype, ccount) == [name |-> name, ctype |-> ctype, ccount |-> ccount]

\* ---------------------------------------------------------- system values

\* emitNewBuiltinVariable(info, builtIn, name): the new variable's id is
\* c.nextId; it joins the entry point's interface list.
emitNewBuiltinVariable(c, builtIn) ==
    [allocateId(Emit(c, Op("newBuiltin", builtIn, c.nextId, 0))) EXCEPT
        !.m_entryPointInterfaces = Append(@, c.nextId)]

\* The mutation of C4: the cache test `== 0` is lost, every request creates.
cachedBuiltin_NoCache(c, builtIn) ==
    [emitNewBuiltinVariable(c, builtIn) EXCEPT !.builtin[builtIn] = c.nextId]

\* if (m_xx.builtinYy == 0) m_xx.builtinYy = emitNewBuiltinVariable(...)
cachedBuiltin(c, builtIn) ==
    IF c.builtin[builtIn] = 0
    THEN [emitNewBuiltinVariable(c, builtIn) EXCEPT !.builtin[builtIn] = c.nextId]
    ELSE c

\* The same with m_module.enableCapability(cap) inside the `if`.
cachedBuiltinCap(c, builtIn, cap) ==
    IF c.builtin[builtIn] = 0
    THEN cachedBuiltin(Emit(c, Op("enableCapability", cap, 0, 0)), builtIn)
    ELSE c

\* emitValueLoad of the builtin's variable; the result is kept in c.ret.
loadBuiltin(c, builtIn, value) ==
    [Emit(c, Op("OpLoad", builtIn, c.builtin[builtIn], 0)) EXCEPT !.ret = value]

Vec(ctype, name, n) == Value(ctype, n, [i \in 1 .. n |-> <<name, i - 1>>])

\* emitValueLoad(ptr): the variable's contents at that point of the program.
emitValueLoad(c, ptr) ==
    [Emit(c, Op("OpLoad", ptr.name, 0, 0)) EXCEPT
        !.ret = Vec(ptr.ctype, ptr.name, ptr.ccount)]

\* emitValueStore(ptr, value, writeMask); c.ret is the value handed to
\* opStore.
emitValueStore(c, ptr, value, writeMask) ==
    LET cast == IF value.ctype # ptr.ctype
                THEN emitRegisterBitcast(value, ptr.ctype) ELSE value
        full == IF cast.ccount = 1
                THEN emitRegisterExtend(cast, PopCount(writeMask)) ELSE cast
    IN  IF ptr.ccount = PopCount(writeMask)
        THEN [Emit(c, Op("OpStore", ptr.name, 0, 0)) EXCEPT !.ret = full]
        ELSE LET loaded == emitValueLoad(c, ptr)
                 tmp == emitRegisterInsert(loaded.ret, full, writeMask)
             IN  [Emit(loaded, Op("OpStore", ptr.name, 0, 0)) EXCEPT !.ret = tmp]

\* emitCommonSystemValueLoad(sv, mask)
emitCommonSystemValueLoad(c, sv, mask) ==
    CASE sv = "SubgroupInvocationID" ->
            loadBuiltin(cachedBuiltin(c, "SubgroupLocalInvocationId"),
                        "SubgroupLocalInvocationId",
                        Vec("Uint32", "SubgroupLocalInvocationId", 1))
      [] sv = "SubgroupEqMask" ->
            loadBuiltin(cachedBuiltin(c, "SubgroupEqMask"), "SubgroupEqMask",
                        emitRegisterExtract(Vec("Uint32", "SubgroupEqMask", 4), mask))
      [] OTHER -> Abort(c)

\* The mutation of C11: the raw host index is returned, the base is loaded
\* and dropped.
emitVsSystemValueLoad_Raw(c, sv, mask) ==
    CASE sv = "VertexId" ->
            LET a == cachedBuiltin(c, "VertexIndex")
                b == cachedBuiltin(a, "BaseVertex")
                l == loadBuiltin(b, "VertexIndex", NoValue)
            IN  loadBuiltin(l, "BaseVertex", Vec("Uint32", "VertexIndex", 1))
      [] sv = "InstanceId" ->
            LET a == cachedBuiltin(c, "InstanceIndex")
                b == cachedBuiltin(a, "BaseInstance")
                l == loadBuiltin(b, "InstanceIndex", NoValue)
            IN  loadBuiltin(l, "BaseInstance", Vec("Uint32", "InstanceIndex", 1))
      [] OTHER -> Abort(c)

\* emitVsSystemValueLoad(sv, mask)
emitVsSystemValueLoad(c, sv, mask) ==
    CASE sv = "VertexId" ->
            LET a == cachedBuiltin(c, "VertexIndex")
                b == cachedBuiltin(a, "BaseVertex")
                l == loadBuiltin(b, "VertexIndex", NoValue)
            IN  loadBuiltin(l, "BaseVertex",
                            Value("Uint32", 1, <<<<"OpISub", "VertexIndex", "BaseVertex">>>>))
      [] sv = "InstanceId" ->
            LET a == cachedBuiltin(c, "InstanceIndex")
                b == cachedBuiltin(a, "BaseInstance")
                l == loadBuiltin(b, "InstanceIndex", NoValue)
            IN  loadBuiltin(l, "BaseInstance",
                            Value("Uint32", 1, <<<<"OpISub", "InstanceIndex", "BaseInstance">>>>))
      [] OTHER -> Abort(c)

\* The mutation of C12: the W component is passed through like X, Y and Z.
emitPsSystemValueLoad_RawW(c, sv, mask) ==
    CASE sv = "Position" ->
            LET fragCoord == Vec("Float32", "FragCoord", 4)
                rcpW == fragCoord
            IN  loadBuiltin(cachedBuiltin(c, "FragCoord"), "FragCoord",
                            emitRegisterExtract(rcpW, mask))
      [] sv = "IsFrontFace" ->
            loadBuiltin(cachedBuiltin(c, "FrontFacing"), "FrontFacing",
                        Value("Uint32", 1, <<<<"OpSelect", "FrontFacing", "bool">>>>))
      [] sv = "PrimitiveId" ->
            loadBuiltin(cachedBuiltinCap(c, "PrimitiveId", "Geometry"),
                        "PrimitiveId", Vec("Uint32", "PrimitiveId", 1))
      [] sv = "SampleIndex" ->
            loadBuiltin(cachedBuiltinCap(c, "SampleId", "SampleRateShading"),
                        "SampleId", Vec("Uint32", "SampleId", 1))
      [] sv = "RenderTargetId" ->
            loadBuiltin(cachedBuiltinCap(c, "Layer", "Geometry"),
                        "Layer", Vec("Uint32", "Layer", 1))
      [] sv = "ViewportId" ->
            loadBuiltin(cachedBuiltinCap(c, "ViewportIndex", "MultiViewport"),
                        "ViewportIndex", Vec("Uint32", "ViewportIndex", 1))
      [] OTHER -> Abort(c)

\* emitPsSystemValueLoad(sv, mask)
emitPsSystemValueLoad(c, sv, mask) ==
    CASE sv = "Position" ->
            LET fragCoord == Vec("Float32", "FragCoord", 4)
                \* component 3 replaced by 1.0 / w
                rcpW == [fragCoord EXCEPT !.comps[4] = <<"OpFDiv", 1, "FragCoord", 3>>]
            IN  loadBuiltin(cachedBuiltin(c, "FragCoord"), "FragCoord",
                            emitRegisterExtract(rcpW, mask))
      [] sv = "IsFrontFace" ->
            loadBuiltin(cachedBuiltin(c, "FrontFacing"), "FrontFacing",
                        Value("Uint32", 1, <<<<"OpSelect", "FrontFacing", "bool">>>>))
      [] sv = "PrimitiveId" ->
            loadBuiltin(cachedBuiltinCap(c, "PrimitiveId", "Geometry"),
                        "PrimitiveId", Vec("Uint32", "PrimitiveId", 1))
      [] sv = "SampleIndex" ->
            loadBuiltin(cachedBuiltinCap(c, "SampleId", "SampleRateShading"),
                        "SampleId", Vec("Uint32", "SampleId", 1))
      [] sv = "RenderTargetId" ->
            loadBuiltin(cachedBuiltinCap(c, "Layer", "Geometry"),
                        "Layer", Vec("Uint32", "Layer", 1))
      [] sv = "ViewportId" ->
            loadBuiltin(cachedBuiltinCap(c, "ViewportIndex", "MultiViewport"),
                        "ViewportIndex", Vec("Uint32", "ViewportIndex", 1))
      [] OTHER -> Abort(c)

\* emitCsSystemValueLoad(sv, mask)
emitCsSystemValueLoad(c, sv, mask) ==
    CASE sv \in {"GlobalInvocationId", "WorkgroupId", "LocalInvocationId"} ->
            loadBuiltin(cachedBuiltin(c, sv), sv,
                        emitRegisterExtract(Vec("Uint32", sv, 3), mask))
      [] sv = "LocalInvocationIndex" ->
            loadBuiltin(cachedBuiltin(c, sv), sv, Vec("Uint32", sv, 1))
      [] sv = "SubgroupID" ->
            loadBuiltin(cachedBuiltin(c, "SubgroupId"), "SubgroupId",
                        Vec("Uint32", "SubgroupId", 1))
      [] OTHER -> Abort(c)

CommonSystemValues == {"SubgroupInvocationID", "SubgroupEqMask"}

\* A handler's request for a system value: the common loader for the
\* subgroup values, the stage's loader otherwise; a stage without a loader
\* cannot supply any.
emitSystemValueLoad(c, sv, mask) ==
    CASE sv \in CommonSystemValues -> emitCommonSystemValueLoad(c, sv, mask)
      [] c.cfg.type = "VS" -> emitVsSystemValueLoad(c, sv, mask)
      [] c.cfg.type = "PS" -> emitPsSystemValueLoad(c, sv, mask)
      [] c.cfg.type = "CS" -> emitCsSystemValueLoad(c, sv, mask)
      [] OTHER -> Abort(c)

\* ------------------------------------------------- instruction handlers

RECURSIVE loadOperands(_, _)
loadOperands(c, src) ==
    IF src = <<>> THEN c
    ELSE Then(emitRegisterLoad(c, Head(src)), LAMBDA d : loadOperands(d, Tail(src)))

RECURSIVE storeOperands(_, _)
storeOperands(c, dst) ==
    IF dst = <<>> THEN c
    ELSE Then(emitRegisterStore(c, Head(dst)), LAMBDA d : storeOperands(d, Tail(dst)))

\* emitVsSystemValueStore(sv, mask, value)
emitVsSystemValueStore(c, sv) ==
    IF sv = "Position"
    THEN Emit(Emit(c, Op("OpAccessChain", "PerVertex_Position", c.m_perVertexOut, 0)),
              Op("OpStore", "PerVertex_Position", c.m_perVertexOut, 0))
    ELSE c

\* The indirect GPR access of a relative-addressing instruction: the index
\* is built by emitIndexLoad and handed to emitGprLoad/emitGprStore(u32).
emitDynamicAccess(c, ins) ==
    LET isVgpr == ins.dyn = "v"
        idx == emitIndexLoad(c, ins.relReg, ins.offset)
    IN  Then(idx, LAMBDA d :
            IF ins.dynStore THEN emitGprStoreIdx(d, isVgpr, ins.offset)
            ELSE emitGprLoadIdx(d, isVgpr, ins.offset))

\* A handler family (emitScalarALU, emitVectorALU, ..., emitExport): it
\* loads the source operands, requests the system value and the indirect
\* register its instruction names, and stores the destination operands; an
\* export to the position target goes to the per-vertex output block.
emitHandler(c, family, ins) ==
    LET entered == Trace(c, Op(family, "ins", c.m_programCounter, ins.length))
        loaded == loadOperands(entered, ins.src)
        sysval == IF ins.sv = "None" THEN loaded
                  ELSE Then(loaded, LAMBDA d : emitSystemValueLoad(d, ins.sv, ins.mask))
        dynamic == IF ins.dyn = "None" THEN sysval
                   ELSE Then(sysval, LAMBDA d : emitDynamicAccess(d, ins))
        stored == Then(dynamic, LAMBDA d : storeOperands(d, ins.dst))
    IN  IF ins.export = "None" THEN stored
        ELSE Then(stored, LAMBDA d :
                IF ins.export = "Pos" THEN emitVsSystemValueStore(d, "Position")
                ELSE Emit(d, Op("OpStore", ins.export, 0, 0)))

InstCategories ==
    {"ScalarALU", "ScalarMemory", "VectorALU", "VectorMemory", "FlowControl",
     "DataShare", "VectorInterpolation", "Export", "DebugProfile"}

\* The mutation of C13: an instruction of no category is handed to the
\* debug/profile handlers.
handlerFamily_UndefinedAsDebug(category) ==
    CASE category = "ScalarALU" -> "ScalarALU"
      [] category = "ScalarMemory" -> "ScalarMemory"
      [] category = "VectorALU" -> "VectorALU"
      [] category = "VectorMemory" -> "VectorMemory"
      [] category = "FlowControl" -> "FlowControl"
      [] category = "DataShare" -> "DataShare"
      [] category = "VectorInterpolation" -> "VectorInterpolation"
      [] category = "Export" -> "Export"
      [] category = "DebugProfile" -> "DebugProfile"
      [] OTHER -> "DebugProfile"

\* compileInstruction's switch: the handler family a category is routed to
\* (emitScalarALU, emitScalarMemory, ...); "UNREACHABLE" for Undefined and
\* for anything the switch does not list.
handlerFamily(category) ==
    CASE category = "ScalarALU" -> "ScalarALU"
      [] category = "ScalarMemory" -> "ScalarMemory"
      [] category = "VectorALU" -> "VectorALU"
      [] category = "VectorMemory" -> "VectorMemory"
      [] category = "FlowControl" -> "FlowControl"
      [] category = "DataShare" -> "DataShare"
      [] category = "VectorInterpolation" -> "VectorInterpolation"
      [] category = "Export" -> "Export"
      [] category = "DebugProfile" -> "DebugProfile"
      [] OTHER -> "UNREACHABLE"

\* compileInstruction(ins): the switch over the category.
compileInstruction(c, ins) ==
    LET family == handlerFamily(ins.category)
    IN  IF family = "UNREACHABLE" THEN Abort(c) ELSE emitHandler(c, family, ins)

\* resetProgramCounter(pc)
resetProgramCounter(c, pc) == [c EXCEPT !.m_programCounter = pc]

\* advanceProgramCounter(ins)
advanceProgramCounter(c, ins) ==
    [c EXCEPT !.m_programCounter = @ + ins.length]

RECURSIVE compileInsList(_, _)
\* for (const auto& ins : insList) { compileInstruction; advanceProgramCounter }
compileInsList(c, insList) ==
    IF insList = <<>> THEN c
    ELSE Then(compileInstruction(c, Head(insList)), LAMBDA d :
            compileInsList(advanceProgramCounter(d, Head(insList)), Tail(insList)))

\* The mutation of C10: the program counter is not reset to the token's pc.
compileTokenCode_NoReset(c, token) ==
    compileInsList(Trace(c, Op("Code", "token", token.pc, 0)), token.insList)

\* compileTokenCode(token)
compileTokenCode(c, token) ==
    compileInsList(resetProgramCounter(Trace(c, Op("Code", "token", token.pc, 0)),
                                       token.pc),
                   token.insList)

\* ------------------------------------------------ structured control flow

OpenKinds == {"Loop", "Block", "If", "IfNot"}

\* compileTokenLoop / compileTokenBlock / compileTokenIf / compileTokenIfNot:
\* a region is opened and stays open until its End.
compileTokenOpen(c, kind) ==
    LET merge == IF kind = "Loop" THEN "OpLoopMerge" ELSE "OpSelectionMerge"
    IN  [Trace(Emit(c, Op(merge, kind, 0, 0)), Op(kind, "token", 0, 0)) EXCEPT
            !.blocks = Append(@, kind)]

\* compileTokenElse: closes the "then" branch of the innermost open If/IfNot.
compileTokenElse(c) ==
    IF c.blocks # <<>> /\ c.blocks[Len(c.blocks)] \in {"If", "IfNot"}
    THEN [Trace(Emit(c, Op("OpLabel", "Else", 0, 0)), Op("Else", "token", 0, 0)) EXCEPT
            !.blocks[Len(c.blocks)] = "Else"]
    ELSE Abort(c)

\* compileTokenBranch
compileTokenBranch(c) ==
    Trace(Emit(c, Op("OpBranch", "", 0, 0)), Op("Branch", "token", 0, 0))

\* compileTokenEnd: closes exactly the innermost open region; without an
\* open region the structure is violated.
compileTokenEnd(c) ==
    IF c.blocks = <<>> THEN Abort(c)
    ELSE [Trace(Emit(c, Op("OpLabel", "Merge", 0, 0)), Op("End", "token", 0, 0)) EXCEPT
            !.blocks = SubSeq(@, 1, Len(@) - 1)]

\* compileTokenSetValue
compileTokenSetValue(c) ==
    Trace(Emit(c, Op("OpStore", "flow", 0, 0)), Op("SetValue", "token", 0, 0))

\* One declaration of the pre-pass.
declareVariable(c) ==
    Trace(Emit(c, Op("OpVariable", "flow", 0, 0)), Op("Variable", "token", 0, 0))

RECURSIVE compileGlobalVariable(_, _)
\* compileGlobalVariable(tokens): the pre-pass over the whole token list.
compileGlobalVariable(c, toks) ==
    IF toks = <<>> THEN c
    ELSE compileGlobalVariable(
            IF Head(toks).kind = "Variable" THEN declareVariable(c) ELSE c,
            Tail(toks))

\* compileToken(token)
compileToken(c, token) ==
    CASE token.kind = "Code" -> compileTokenCode(c, token)
      [] token.kind \in OpenKinds -> compileTokenOpen(c, token.kind)
      [] token.kind = "Else" -> compileTokenElse(c)
      [] token.kind = "Branch" -> compileTokenBranch(c)
      [] token.kind = "End" -> compileTokenEnd(c)
      [] token.kind = "SetValue" -> compileTokenSetValue(c)
      [] token.kind = "Variable" -> c
      [] OTHER -> Abort(c)

\* ------------------------------------------------------ binding mapper

\* computeConstantBufferBinding(stage, index): constant buffers occupy the
\* first range of a stage's slots.
computeConstantBufferBinding(stage, index) == index

\* computeSamplerBinding(stage, index): samplers follow the constant buffers.
computeSamplerBinding(stage, index) == 16 + index

\* computeResourceBinding(stage, index): resources follow the samplers.
computeResourceBinding(stage, index) == 32 + index

\* VltResourceSlot; reg remembers the register index the slot was made for.
ResourceSlot(slot, type, reg) == [slot |-> slot, type |-> type, reg |-> reg]

\* ------------------------------------------------- resource declaration

\* emitDclBuffer(res)
emitDclBuffer(c, res) ==
    LET regIdx == res.startRegister
        asSsbo == res.type = "eStorageBuffer"
        varId == c.nextId
        bindingId == IF asSsbo THEN computeResourceBinding(c.cfg.type, regIdx)
                     ELSE computeConstantBufferBinding(c.cfg.type, regIdx)
        declared == Emit(allocateId(Emit(c, Op("newVar", IF asSsbo THEN "sb" ELSE "cb",
                                              varId, regIdx))),
                         Op("decorateBinding", "", varId, bindingId))
    IN  [declared EXCEPT
            !.m_buffersDcl[regIdx] = varId,
            !.m_resourceSlots = Append(@, ResourceSlot(bindingId,
                IF asSsbo THEN "eStorageBuffer" ELSE "eUniformBuffer", regIdx))]

\* emitDclTexture(res); getTextureMetaTable() knows the pixel and the
\* compute stage only.
emitDclTexture(c, res) ==
    IF c.cfg.type \notin {"PS", "CS"} THEN Abort(c)
    ELSE LET registerId == res.startRegister
             isStorage == res.type = "eStorageImage"
             varId == c.nextId
             bindingId == computeResourceBinding(c.cfg.type, registerId)
             declared == Emit(allocateId(Emit(c, Op("newVar",
                                 IF isStorage THEN "r" ELSE "t", varId, registerId))),
                              Op("decorateBinding", "", varId, bindingId))
         IN  [declared EXCEPT
                 !.m_texturesDcl[registerId] = varId,
                 !.m_resourceSlots = Append(@, ResourceSlot(bindingId,
                     IF isStorage THEN "eStorageImage" ELSE "eSampledImage",
                     registerId))]

\* emitDclSampler(res)
emitDclSampler(c, res) ==
    LET samplerId == res.startRegister
        varId == c.nextId
        bindingId == computeSamplerBinding(c.cfg.type, samplerId)
        declared == Emit(allocateId(Emit(c, Op("newVar", "sampler", varId, samplerId))),
                         Op("decorateBinding", "", varId, bindingId))
    IN  [declared EXCEPT
            !.m_samplersDcl[samplerId] = varId,
            !.m_resourceSlots = Append(@, ResourceSlot(bindingId, "eSampler", samplerId))]

\* The mutation of C14: the fetch shader is taken to be present.
hasFetchShader_Always(c) == TRUE

\* hasFetchShader()
hasFetchShader(c) ==
    \E i \in 1 .. Len(c.cfg.resTable) : c.cfg.resTable[i].usage = "SubPtrFetchShader"

\* emitDclInput(regIdx, im); getInputRegType asserts regIdx < semantic count
\* in the vertex stage.
emitDclInput(c, regIdx) ==
    IF c.cfg.type = "VS" /\ regIdx >= Len(c.cfg.semantics) THEN Abort(c)
    ELSE [allocateId(Emit(c, Op("newVar", "i", c.nextId, regIdx))) EXCEPT
            !.m_inputs[regIdx] = c.nextId,
            !.m_entryPointInterfaces = Append(@, c.nextId)]

RECURSIVE emitDclInputs(_, _)
emitDclInputs(c, regs) ==
    IF regs = <<>> THEN c
    ELSE Then(emitDclInput(c, Head(regs)), LAMBDA d : emitDclInputs(d, Tail(regs)))

\* emitDclVertexInput(); getSemanticTable() knows the vertex stage only.
emitDclVertexInput(c) ==
    IF c.cfg.type # "VS" THEN Abort(c)
    ELSE emitDclInputs(c, [i \in 1 .. Len(c.cfg.semantics) |-> c.cfg.semantics[i].semantic])

\* emitDclPsInput()
emitDclPsInput(c) ==
    emitDclInputs(c, [i \in 1 .. c.cfg.psInputCount |-> i - 1])

\* emitFunctionEnd()
emitFunctionEnd(c) ==
    [(IF c.m_insideFunction
      THEN Emit(Emit(c, Op("opReturn", "", 0, 0)), Op("functionEnd", "", 0, 0))
      ELSE c) EXCEPT !.m_insideFunction = FALSE]

\* emitFunctionBegin(entryPoint, ...), then emitFunctionLabel()
emitFunctionBegin(c, entryPoint, name) ==
    LET begun == [Emit(emitFunctionEnd(c), Op("functionBegin", name, entryPoint, 0))
                    EXCEPT !.m_insideFunction = TRUE]
    IN  allocateId(Emit(begun, Op("opLabel", "", begun.nextId, 0)))

RECURSIVE emitFetchStores(_, _)
\* The loop of emitFetchInput: load the input, store dest_vgpr .. +n-1.
emitFetchStores(c, semas) ==
    IF semas = <<>> THEN c
    ELSE LET sema == Head(semas)
             loaded == Emit(c, Op("OpLoad", "i", c.m_inputs[sema.semantic], 0))
         IN  emitFetchStores(
                 emitGprArrayStore(loaded, TRUE, sema.dest_vgpr, sema.num_elements),
                 Tail(semas))

\* emitFetchInput()
emitFetchInput(c) ==
    LET named == [allocateId(c) EXCEPT !.fetchFuncId = c.nextId]
    IN  emitFetchStores(emitFunctionBegin(named, named.fetchFuncId, "vs_fetch"),
                        c.cfg.semantics)

UnsupportedUsages ==
    {"ImmAluFloatConst", "ImmAluBool32Const", "ImmGdsCounterRange",
     "ImmGdsMemoryRange", "ImmGwsBase", "ImmLdsEsGsSize", "ImmVertexBuffer"}

\* One iteration of the loop of emitDclInputSlots.
emitDclInputSlot(c, res) ==
    CASE res.usage = "ImmConstBuffer" -> emitDclBuffer(c, res)
      [] res.usage \in {"ImmResource", "ImmRwResource"} ->
            IF res.type = "eStorageBuffer" THEN emitDclBuffer(c, res)
            ELSE emitDclTexture(c, res)
      [] res.usage = "ImmSampler" -> emitDclSampler(c, res)
      [] res.usage = "PtrVertexBufferTable" ->
            IF ~hasFetchShader(c) THEN Abort(c)
            ELSE Then(emitDclVertexInput(c), emitFetchInput)
      [] res.usage \in UnsupportedUsages -> Abort(c)
      [] OTHER -> c

RECURSIVE mapNonEudResources_All(_, _)
\* The mutation of C15: the resources of the extended user-data table are
\* mapped like the others.
mapNonEudResources_All(c, table) ==
    IF table = <<>> THEN c
    ELSE LET res == Head(table)
             regIdx == res.startRegister
             mapped ==
                 CASE res.type \in {"eUniformBuffer", "eStorageBuffer"} ->
                        [c EXCEPT !.m_buffers[regIdx] = c.m_buffersDcl[regIdx]]
                   [] res.type \in {"eSampledImage", "eStorageImage"} ->
                        [c EXCEPT !.m_textures[regIdx] = c.m_texturesDcl[regIdx]]
                   [] res.type = "eSampler" ->
                        [c EXCEPT !.m_samplers[regIdx] = c.m_samplersDcl[regIdx]]
                   [] res.type = "MaxEnum" -> c
                   [] OTHER -> Abort(c)
         IN  Then(mapped, LAMBDA d : mapNonEudResources_All(d, Tail(table)))

RECURSIVE mapNonEudResources(_, _)
\* mapNonEudResource(): the declared variables of the resources that are not
\* in the extended user-data table become the active ones.
mapNonEudResources(c, table) ==
    IF table = <<>> THEN c
    ELSE LET res == Head(table)
             regIdx == res.startRegister
             mapped ==
                 CASE res.inEud -> c
                   [] res.type \in {"eUniformBuffer", "eStorageBuffer"} ->
                        [c EXCEPT !.m_buffers[regIdx] = c.m_buffersDcl[regIdx]]
                   [] res.type \in {"eSampledImage", "eStorageImage"} ->
                        [c EXCEPT !.m_textures[regIdx] = c.m_texturesDcl[regIdx]]
                   [] res.type = "eSampler" ->
                        [c EXCEPT !.m_samplers[regIdx] = c.m_samplersDcl[regIdx]]
                   [] res.type = "MaxEnum" -> c
                   [] OTHER -> Abort(c)
         IN  Then(mapped, LAMBDA d : mapNonEudResources(d, Tail(table)))

RECURSIVE emitDclInputSlotsFrom(_, _)
emitDclInputSlotsFrom(c, table) ==
    IF table = <<>> THEN c
    ELSE Then(emitDclInputSlot(c, Head(table)),
              LAMBDA d : emitDclInputSlotsFrom(d, Tail(table)))

\* emitDclInputSlots()
emitDclInputSlots(c) ==
    Then(emitDclInputSlotsFrom(c, c.cfg.resTable),
         LAMBDA d : mapNonEudResources(d, d.cfg.resTable))

\* ------------------------------------------------ construction (emitInit)

\* emitDclGprArray(arrayInfo, name): the length starts at 1, its constant is
\* a late constant, the array is a private variable.
emitDclGprArrayOne(c, isVgpr) ==
    LET lengthId == c.nextId
        arrayId == c.nextId + 1
        arr == [arrayLength |-> 1, arrayLengthId |-> lengthId, arrayId |-> arrayId]
        declared == allocateId(allocateId(
                        Emit(Emit(c, Op("lateConst32", ArrayName(isVgpr), lengthId, 0)),
                             Op("newVar", ArrayName(isVgpr), arrayId, 0))))
    IN  IF isVgpr THEN [declared EXCEPT !.m_vArray = arr]
        ELSE [declared EXCEPT !.m_sArray = arr]

\* emitDclGprArray(): the SGPR array, then the VGPR array.
emitDclGprArray(c) == emitDclGprArrayOne(emitDclGprArrayOne(c, FALSE), TRUE)

\* emitDclStateRegister(): m0 and scc.
emitDclStateRegister(c) ==
    LET m0 == allocateId(Emit(c, Op("newVar", "m0", c.nextId, 0)))
    IN  allocateId(Emit(m0, Op("newVar", "scc", m0.nextId, 0)))

\* emitDclOutput(regIdx, target)
emitDclOutput(c, regIdx, target) ==
    [allocateId(Emit(c, Op("newVar", target, c.nextId, regIdx))) EXCEPT
        !.m_entryPointInterfaces = Append(@, c.nextId)]

RECURSIVE emitDclOutputs(_, _, _, _)
emitDclOutputs(c, i, count, target) ==
    IF i = count THEN c
    ELSE emitDclOutputs(emitDclOutput(c, i, target), i + 1, count, target)

\* emitDclExport(): the param outputs, then the mrt outputs.
emitDclExport(c) ==
    emitDclOutputs(emitDclOutputs(c, 0, c.cfg.paramCount, "Param"),
                   0, c.cfg.mrtCount, "Mrt")

\* The mutation of C7: the per-vertex output block is declared twice.
emitVsInit_TwoBlocks(c) ==
    LET first == [allocateId(Emit(c, Op("newVar", "vs_vertex_out", c.nextId, 0)))
                    EXCEPT !.m_entryPointInterfaces = Append(@, c.nextId)]
        perVertex == [allocateId(Emit(first, Op("newVar", "vs_vertex_out", first.nextId, 0)))
                        EXCEPT !.m_perVertexOut = first.nextId,
                               !.m_entryPointInterfaces = Append(@, first.nextId)]
        named == [allocateId(perVertex) EXCEPT !.functionId = perVertex.nextId]
    IN  emitFunctionBegin(named, named.functionId, "vs_main")

\* emitVsInit()
emitVsInit(c) ==
    LET perVertex == [allocateId(Emit(c, Op("newVar", "vs_vertex_out", c.nextId, 0)))
                        EXCEPT !.m_perVertexOut = c.nextId,
                               !.m_entryPointInterfaces = Append(@, c.nextId)]
        named == [allocateId(perVertex) EXCEPT !.functionId = perVertex.nextId]
    IN  emitFunctionBegin(named, named.functionId, "vs_main")

\* emitPsInit()
emitPsInit(c) ==
    LET mode == Emit(c, Op("setExecutionMode", "OriginUpperLeft", c.m_entryPointId, 0))
    IN  Then(emitDclPsInput(mode), LAMBDA d :
            LET named == [allocateId(d) EXCEPT !.functionId = d.nextId]
            IN  emitFunctionBegin(named, named.functionId, "ps_main"))

\* emitCsInit()
emitCsInit(c) ==
    LET sized == Emit(c, Op("setLocalSize", "", c.m_entryPointId, 0))
        named == [allocateId(sized) EXCEPT !.functionId = sized.nextId]
    IN  emitFunctionBegin(named, named.functionId, "cs_main")

\* The stage switch of emitInit(); emitHsInit, emitDsInit, emitGsInit are
\* empty.
emitStageInit(c) ==
    CASE c.cfg.type = "VS" -> emitVsInit(c)
      [] c.cfg.type = "PS" -> emitPsInit(c)
      [] c.cfg.type = "CS" -> emitCsInit(c)
      [] OTHER -> c

\* emitInit()
emitInit(c) ==
    LET caps == Emit(c, Op("enableCapability", "Shader", 0, 0))
        regs == emitDclStateRegister(emitDclGprArray(caps))
    IN  Then(emitDclInputSlots(regs), LAMBDA d : emitStageInit(emitDclExport(d)))

\* The mutation of C9: ids are numbered from the object's identity instead
\* of from the instance's own module.
GcnCompiler_IdsFromThis(c, self) ==
    LET entry == [c EXCEPT !.m_entryPointId = self, !.nextId = self + 1]
    IN  emitInit(Emit(entry, Op("setMemoryModel", "GLSL450", 0, 0)))

\* GcnCompiler::GcnCompiler(...): the constructor's body.  self is `this`,
\* which the member initialisers hand to the exec and vcc state registers;
\* nothing that is emitted depends on it.
GcnCompiler(c, self) ==
    LET entry == [allocateId(c) EXCEPT !.m_entryPointId = c.nextId]
    IN  emitInit(Emit(entry, Op("setMemoryModel", "GLSL450", 0, 0)))

\* ----------------------------------------------------------- input setup

\* m_module.setLateConst(constId, &value): the constant takes the value the
\* pointer designates at the time of the call.
setLateConst(c, isVgpr) ==
    LET arr == IF isVgpr THEN c.m_vArray ELSE c.m_sArray
    IN  Emit(c, Op("setLateConst", ArrayName(isVgpr), arr.arrayLengthId, arr.arrayLength))

\* The mutation of C18: exec takes both ballot words whatever the option.
emitInitStateRegister_NoSplit(c) ==
    LET ballot == Emit(c, Op("opGroupNonUniformBallot", "", 0, 0))
        exec == Emit(ballot, Op("StateInit", "exec", 0, 1))
    IN  Emit(exec, Op("StateInit", "vcc", -1, -1))

\* emitInitStateRegister(): exec from the subgroup ballot, vcc zero.  The
\* two halves of a StateInit are a ballot word (0 or 1) or -1 for the
\* constant 0.
emitInitStateRegister(c) ==
    LET ballot == Emit(c, Op("opGroupNonUniformBallot", "", 0, 0))
        exec == Emit(ballot, Op("StateInit", "exec", 0,
                                IF c.cfg.separateSubgroup THEN -1 ELSE 1))
    IN  Emit(exec, Op("StateInit", "vcc", -1, -1))

\* emitVsInputSetup(): v0 <- VertexId.
emitVsInputSetup(c) ==
    Then(emitVsSystemValueLoad(c, "VertexId", {}), LAMBDA d : emitGprStore(d, TRUE, 0))

RECURSIVE emitSvStores(_, _, _, _)
\* A run of "load system value component, store to the next register".
\* loads is a sequence of <<system value, component>>.
emitSvStores(c, isVgpr, index, loads) ==
    IF loads = <<>> THEN c
    ELSE LET sv == Head(loads)[1]
             mask == MaskSelect(Head(loads)[2])
             loaded == IF c.cfg.type = "PS" THEN emitPsSystemValueLoad(c, sv, mask)
                       ELSE emitCsSystemValueLoad(c, sv, mask)
         IN  Then(loaded, LAMBDA d :
                 emitSvStores(emitGprStore(d, isVgpr, index), isVgpr,
                              index + 1, Tail(loads)))

\* emitPsInputSetup()
emitPsInputSetup(c) ==
    LET xy == <<<<"Position", 0>>, <<"Position", 1>>>>
        loads == (IF c.cfg.perspSampleEn THEN xy ELSE <<>>)
              \o (IF c.cfg.perspCenterEn THEN xy ELSE <<>>)
              \o (IF c.cfg.posXEn THEN <<<<"Position", 0>>>> ELSE <<>>)
              \o (IF c.cfg.posYEn THEN <<<<"Position", 1>>>> ELSE <<>>)
    IN  emitSvStores(c, TRUE, 0, loads)

\* emitCsInputSetup()
emitCsInputSetup(c) ==
    LET sLoads == (IF c.cfg.enableTgidX THEN <<<<"WorkgroupId", 0>>>> ELSE <<>>)
               \o (IF c.cfg.enableTgidY THEN <<<<"WorkgroupId", 1>>>> ELSE <<>>)
               \o (IF c.cfg.enableTgidZ THEN <<<<"WorkgroupId", 2>>>> ELSE <<>>)
        vLoads == <<<<"LocalInvocationId", 0>>>>
               \o (IF c.cfg.threadIdInGroupCount >= 1
                   THEN <<<<"LocalInvocationId", 1>>>> ELSE <<>>)
               \o (IF c.cfg.threadIdInGroupCount >= 2
                   THEN <<<<"LocalInvocationId", 2>>>> ELSE <<>>)
    IN  Then(emitSvStores(c, FALSE, c.cfg.userSgprCount, sLoads),
             LAMBDA d : emitSvStores(d, TRUE, 0, vLoads))

\* emitInputSetup()
emitInputSetup(c) ==
    LET bound == emitInitStateRegister(setLateConst(setLateConst(c, TRUE), FALSE))
    IN  CASE c.cfg.type = "VS" -> emitVsInputSetup(bound)
          [] c.cfg.type = "PS" -> emitPsInputSetup(bound)
          [] c.cfg.type = "CS" -> emitCsInputSetup(bound)
          [] OTHER -> Abort(bound)

\* ---------------------------------------------------------------- finalize

\* emitMainFunctionBegin()
emitMainFunctionBegin(c) == emitFunctionBegin(c, c.m_entryPointId, "main")

opFunctionCall(c, name, id) == Emit(c, Op("opFunctionCall", name, id, 0))

\* The mutation of C6: the fetch function is called whether or not one was
\* synthesized.
emitVsFinalize_AlwaysFetch(c) ==
    Then(emitInputSetup(emitMainFunctionBegin(c)), LAMBDA d :
        emitFunctionEnd(opFunctionCall(opFunctionCall(d, "vs_fetch", d.fetchFuncId),
                                       "vs_main", d.functionId)))

\* emitVsFinalize()
emitVsFinalize(c) ==
    Then(emitInputSetup(emitMainFunctionBegin(c)), LAMBDA d :
        LET fetched == IF d.fetchFuncId # 0
                       THEN opFunctionCall(d, "vs_fetch", d.fetchFuncId) ELSE d
        IN  emitFunctionEnd(opFunctionCall(fetched, "vs_main", d.functionId)))

\* emitPsFinalize()
emitPsFinalize(c) ==
    Then(emitInputSetup(emitMainFunctionBegin(c)), LAMBDA d :
        emitFunctionEnd(opFunctionCall(d, "ps_main", d.functionId)))

\* emitCsFinalize()
emitCsFinalize(c) ==
    Then(emitInputSetup(emitMainFunctionBegin(c)), LAMBDA d :
        emitFunctionEnd(opFunctionCall(d, "cs_main", d.functionId)))

\* m_module.compile().code(): the serialized module is the emitted operations
\* followed by the ids of the entry point's interface.
serialize(c) == c.module \o [i \in 1 .. Len(c.m_entryPointInterfaces) |->
                               Op("interface", "", c.m_entryPointInterfaces[i], 0)]

\* finalize(): the stage's finalizer (empty for HS, DS, GS), the entry point,
\* the serialized module.
finalize(c) ==
    LET staged == CASE c.cfg.type = "VS" -> emitVsFinalize(c)
                    [] c.cfg.type = "PS" -> emitPsFinalize(c)
                    [] c.cfg.type = "CS" -> emitCsFinalize(c)
                    [] OTHER -> c
    IN  Then(staged, LAMBDA d :
            LET entry == Emit(d, Op("addEntryPoint", "main", d.m_entryPointId,
                                    Len(d.m_entryPointInterfaces)))
            IN  [entry EXCEPT !.code = serialize(entry)])

\* ------------------------------------------------------------- the inputs

VGpr(code) == Operand("VectorGPR", "Float32", code)
SGpr(code) == Operand("ScalarGPR", "Uint32", code)
SGpr64(code) == Operand("ScalarGPR", "Uint64", code)

FetchTable ==
    <<Resource("SubPtrFetchShader", "MaxEnum", 0, FALSE),
      Resource("PtrVertexBufferTable", "MaxEnum", 2, FALSE)>>

VsConfigs ==
    {Config("VS", <<>>),
     [Config("VS", <<>>) EXCEPT !.paramCount = 1, !.separateSubgroup = TRUE],
     [Config("VS", FetchTable) EXCEPT !.semantics = <<Semantic(0, 4, 2)>>],
     [Config("VS", <<FetchTable[2]>>) EXCEPT !.semantics = <<Semantic(0, 4, 2)>>],
     [Config("VS", <<FetchTable[2], FetchTable[1]>>) EXCEPT
        !.semantics = <<Semantic(0, 4, 2), Semantic(1, 1, 1)>>]}

PsTables ==
    {<<Resource("ImmConstBuffer", "eUniformBuffer", 3, FALSE),
       Resource("ImmSampler", "eSampler", 3, FALSE)>>,
     <<Resource("ImmRwResource", "eStorageBuffer", 3, FALSE),
       Resource("ImmResource", "eSampledImage", 3, FALSE)>>,
     <<Resource("ImmResource", "eSampledImage", 1, TRUE),
       Resource("ImmRwResource", "eStorageImage", 2, FALSE)>>,
     <<Resource("ImmConstBuffer", "eUniformBuffer", 0, TRUE),
       Resource("ImmSampler", "eSampler", 1, TRUE),
       Resource("ImmConstBuffer", "eUniformBuffer", 2, FALSE),
       Resource("ImmRwResource", "eStorageBuffer", 1, FALSE),
       Resource("ImmSampler", "eSampler", 3, FALSE)>>,
     <<Resource("ImmGwsBase", "MaxEnum", 0, FALSE)>>}

PsConfigs ==
    {[Config("PS", <<>>) EXCEPT !.perspSampleEn = a, !.perspCenterEn = b,
                                !.posXEn = x, !.posYEn = y, !.mrtCount = 1,
                                !.psInputCount = 1] :
        a \in BOOLEAN, b \in BOOLEAN, x \in BOOLEAN, y \in BOOLEAN}
    \cup {Config("PS", t) : t \in PsTables}

CsConfigs ==
    {[Config("CS", <<>>) EXCEPT !.enableTgidX = x, !.enableTgidZ = z,
                                !.threadIdInGroupCount = n, !.userSgprCount = u] :
        x \in BOOLEAN, z \in BOOLEAN, n \in {0, 2}, u \in {0, 2}}

Configs ==
    VsConfigs \cup PsConfigs \cup CsConfigs
    \cup {Config(t, <<>>) : t \in {"HS", "DS", "GS"}}
    \cup {Config("VS", t) : t \in PsTables}
    \cup {Config("PS", FetchTable)}

\* The instructions of the register specification.
RegisterInstructions ==
    {Ins("VectorALU", 4, <<VGpr(0)>>, <<VGpr(2)>>),
     Ins("VectorALU", 4, <<SGpr(1)>>, <<VGpr(5)>>),
     Ins("ScalarALU", 4, <<SGpr64(2)>>, <<SGpr64(4)>>),
     Ins("ScalarALU", 4, <<Operand("VccLo", "Uint64", 0)>>,
                         <<Operand("ExecLo", "Uint32", 0)>>),
     DynIns("v", NoOperand, 3, FALSE),
     DynIns("s", Operand("M0", "Uint32", 0), 1, TRUE),
     ExportIns("Pos", 0),
     Ins("Undefined", 4, <<>>, <<>>)}

RegisterPrograms ==
    {<<CodeToken(0, P)>> : P \in SeqsUpTo(RegisterInstructions, MaxIns)}

\* The system-value requests of the system-value specification.
SvInstructions ==
    {SvIns(sv, {}) : sv \in {"VertexId", "InstanceId"}}
    \cup {SvIns("Position", m) : m \in {{0}, {1}, {2}, {3}, {0, 1}}}
    \cup {SvIns(sv, {0}) : sv \in {"IsFrontFace", "PrimitiveId", "SampleIndex",
                                   "RenderTargetId", "ViewportId",
                                   "LocalInvocationIndex", "SubgroupID",
                                   "SubgroupInvocationID", "SubgroupEqMask"}}
    \cup {SvIns("SubgroupEqMask", {1, 2})}
    \cup {SvIns(sv, m) : sv \in {"GlobalInvocationId", "WorkgroupId",
                                 "LocalInvocationId"}, m \in {{0}, {0, 1, 2}}}

SvPrograms ==
    {<<CodeToken(0, P)>> : P \in SeqsUpTo(SvInstructions, MaxSvLoads)}

SvConfigs ==
    {Config("VS", <<>>), Config("GS", <<>>),
     Config("PS", <<>>), [Config("PS", <<>>) EXCEPT !.perspSampleEn = TRUE],
     [Config("CS", <<>>) EXCEPT !.enableTgidX = TRUE]}

\* The token at position k of a list of the control-flow specification;
\* Code tokens follow one another in the program, 16 bytes apart.
FlowToken(kind, k) ==
    IF kind = "Code"
    THEN CodeToken(16 * k, <<Ins("ScalarALU", 4, <<SGpr(0)>>, <<SGpr(1)>>),
                             Ins("VectorALU", 8, <<VGpr(0)>>, <<VGpr(1)>>)>>)
    ELSE Token(kind)

FlowPrograms ==
    {[k \in 1 .. Len(ks) |-> FlowToken(ks[k], k)] : ks \in SeqsUpTo(TokenKinds, MaxTokens)}

FlowConfigs == {Config("VS", <<>>), Config("CS", <<>>)}

\* Two instances at a time.
DetConfigs ==
    {Config("VS", <<>>),
     [Config("PS", <<Resource("ImmConstBuffer", "eUniformBuffer", 3, FALSE)>>) EXCEPT !.posXEn = TRUE],
     [Config("CS", <<>>) EXCEPT !.enableTgidX = TRUE]}

DetInstructions ==
    {Ins("VectorALU", 4, <<VGpr(0)>>, <<VGpr(2)>>), SvIns("SubgroupInvocationID", {0})}

DetPrograms ==
    {<<CodeToken(0, P)>> : P \in SeqsUpTo(DetInstructions, MaxIns)}

\* The operand fields and types of the operand specification; "Reserved"
\* stands for a field value outside the enumeration's listed cases.
OperandFields ==
    {"ScalarGPR", "VectorGPR", "VccLo", "VccHi", "ExecLo", "ExecHi", "M0",
     "ConstZero", "ConstFloatPos_1_0", "LiteralConst",
     "VccZ", "ExecZ", "Scc", "LdsDirect", "Undefined", "Reserved"}

OperandTypes == {"Uint32", "Float32", "Sint64", "Uint64", "Float64"}

\* One instruction per way of reading or writing one operand at register
\* code 2, and one instruction without operands per category.
OpInstructions ==
    {Ins("VectorALU", 4, <<Operand(f, t, 2)>>, <<>>) :
        f \in OperandFields, t \in OperandTypes}
    \cup {Ins("VectorALU", 4, <<>>, <<Operand(f, t, 2)>>) :
        f \in OperandFields, t \in OperandTypes}
    \cup {Ins(cat, 4, <<>>, <<>>) : cat \in InstCategories \cup {"Undefined"}}

OpPrograms ==
    {<<CodeToken(0, P)>> : P \in SeqsUpTo(OpInstructions, MaxOps)}

OpConfigs == {Config("VS", <<>>), Config("CS", <<>>)}

\* The stores of the store specification: destinations of one to four
\* components, every write mask, a new value of one component or of as many
\* as the mask selects, of the destination's type or of the other 32-bit one.
StorePointers ==
    {Pointer("dst", t, n) : t \in {"Float32", "Uint32"}, n \in 1 .. 4}

StoreMasks == SUBSET (0 .. 3)

StoreValues(mask) ==
    {Vec(t, "new", n) : t \in {"Float32", "Uint32"}, n \in {1, PopCount(mask)} \ {0}}

\* ------------------------------------------------------ the state machine

\* pos[i]: where the caller of instance i stands.
\*   "absent"      the instance is not part of this run
\*   "new"         the constructor's body has not run yet
\*   "constructed" the constructor returned
\*   "compiling"   compile() is in its token loop, about to take token idx
\*   "compiled"    compile() returned
\*   "finalized"   finalize() returned the module
\*   "aborted"     a fatal error ended the compilation
Pos(phase, idx) == [phase |-> phase, idx |-> idx]

After(c, phase, idx) == IF c.fatal THEN Pos("aborted", idx) ELSE Pos(phase, idx)

\* No kernel semaphore has been created.
NoSemaphore == [created |-> FALSE]

\* No event queue has been created.
NoEqueue == [created |-> FALSE]

\* No texture cache has been created.
NoTextureCache == [created |-> FALSE]

\* No compiler instance takes part in the run.
NoCompiler ==
    /\ gc = [i \in Instances |-> Absent]
    /\ tokens = [i \in Instances |-> <<>>]
    /\ pos = [i \in Instances |-> Pos("absent", 0)]

\* One instance, its inputs drawn from cfgs and programs.
InitOne(cfgs, programs) ==
    \E cfg \in cfgs, toks \in programs :
        /\ gc = [i \in Instances |-> IF i = 1 THEN NewCompiler(cfg) ELSE Absent]
        /\ tokens = [i \in Instances |-> IF i = 1 THEN toks ELSE <<>>]
        /\ pos = [i \in Instances |-> IF i = 1 THEN Pos("new", 0) ELSE Pos("absent", 0)]
        /\ sem = NoSemaphore
        /\ eq = NoEqueue
        /\ tc = NoTextureCache

Init == InitOne(Configs, RegisterPrograms)

InitSv == InitOne(SvConfigs, SvPrograms)

InitFlow == InitOne(FlowConfigs, FlowPrograms)

InitOps == InitOne(OpConfigs, OpPrograms)

InitStore == InitOne({Config("VS", <<>>), Config("PS", <<>>)}, {<<>>})

InitDet ==
    \E cfg \in [Instances -> DetConfigs], toks \in [Instances -> DetPrograms] :
        /\ gc = [i \in Instances |-> NewCompiler(cfg[i])]
        /\ tokens = toks
        /\ pos = [i \in Instances |-> Pos("new", 0)]
        /\ sem = NoSemaphore
        /\ eq = NoEqueue
        /\ tc = NoTextureCache

\* new GcnCompiler(...)
Construct(i) ==
    /\ pos[i].phase = "new"
    /\ LET built == GcnCompiler(gc[i], i)
       IN  /\ gc' = [gc EXCEPT ![i] = built]
           /\ pos' = [pos EXCEPT ![i] = After(built, "constructed", 0)]
    /\ UNCHANGED <<tokens, sem, eq, tc>>

\* compile(tokens), up to the token loop: the pre-pass.
CompileBegin(i) ==
    /\ pos[i].phase = "constructed"
    /\ LET declared == compileGlobalVariable(gc[i], tokens[i])
       IN  /\ gc' = [gc EXCEPT ![i] = declared]
           /\ pos' = [pos EXCEPT ![i] =
                        IF tokens[i] = <<>> THEN After(declared, "compiled", 1)
                        ELSE After(declared, "compiling", 1)]
    /\ UNCHANGED <<tokens, sem, eq, tc>>

\* compile(tokens): one turn of the token loop.
CompileToken(i) ==
    /\ pos[i].phase = "compiling"
    /\ LET k == pos[i].idx
           done == compileToken(gc[i], tokens[i][k])
       IN  /\ gc' = [gc EXCEPT ![i] = done]
           /\ pos' = [pos EXCEPT ![i] =
                        IF k = Len(tokens[i]) THEN After(done, "compiled", k + 1)
                        ELSE After(done, "compiling", k + 1)]
    /\ UNCHANGED <<tokens, sem, eq, tc>>

\* finalize()
Finalize(i) ==
    /\ pos[i].phase = "compiled"
    /\ LET final == finalize(gc[i])
       IN  /\ gc' = [gc EXCEPT ![i] = final]
           /\ pos' = [pos EXCEPT ![i] = After(final, "finalized", pos[i].idx)]
    /\ UNCHANGED <<tokens, sem, eq, tc>>

\* A handler's call of emitValueStore on a constructed instance.
StoreValue(i) ==
    /\ pos[i].phase = "constructed"
    /\ \E ptr \in StorePointers, mask \in StoreMasks :
          \E value \in StoreValues(mask) :
              LET called == Trace(gc[i], Op("emitValueStore", ptr, value, mask))
                  stored == emitValueStore(called, ptr, value, mask)
              IN  /\ gc' = [gc EXCEPT ![i] = stored]
                  /\ pos' = [pos EXCEPT ![i] = After(stored, "stored", 0)]
    /\ UNCHANGED <<tokens, sem, eq, tc>>

NextStore ==
    \E i \in Instances :
        \/ Construct(i)
        \/ StoreValue(i)

Next ==
    \E i \in Instances :
        \/ Construct(i)
        \/ CompileBegin(i)
        \/ CompileToken(i)
        \/ Finalize(i)

Spec == Init /\ [][Next]_vars

SpecSv == InitSv /\ [][Next]_vars

SpecFlow == InitFlow /\ [][Next]_vars

SpecDet == InitDet /\ [][Next]_vars

SpecOps == InitOps /\ [][Next]_vars

SpecStore == InitStore /\ [][NextStore]_vars

TypeOK ==
    \A i \in Instances :
        /\ pos[i].phase \in {"absent", "new", "constructed", "compiling",
                             "compiled", "finalized", "aborted", "stored"}
        /\ gc[i].fatal = (pos[i].phase \in {"aborted", "absent"})

\* ------------------------------------------------------ register claims

ArrayOf(c, name) == IF name = "v" THEN c.m_vArray ELSE c.m_sArray

MaxOf(S) == CHOOSE m \in S : \A x \in S : x <= m

\* The register codes of the static accesses to array `name` in log[from..].
StaticRefs(log, from, name) ==
    {log[k].a : k \in {j \in from .. Len(log) :
        log[j].op = "OpAccessChain" /\ log[j].s = name /\ log[j].b = 0}}

\* The values the length constant of array `name` was given.
BoundLengths(log, name) ==
    {log[k].b : k \in {j \in 1 .. Len(log) :
        log[j].op = "setLateConst" /\ log[j].s = name}}

ArrayNames == {"v", "s"}

\* C1: after compile() and finalize() of a vertex, pixel or compute program,
\* the length bound to a register array is the largest register code
\* referenced by any load or store of the module, plus one.
C1_BoundIsLargestReferencedPlusOne ==
    \A i \in Instances : \A name \in ArrayNames :
        (pos[i].phase = "finalized" /\ gc[i].cfg.type \in {"VS", "PS", "CS"}) =>
            LET refs == StaticRefs(gc[i].module, 1, name)
            IN  refs # {} =>
                    BoundLengths(gc[i].module, name) = {MaxOf(refs) + 1}

\* C2: the tracked length of each register array never decreases; it is 1
\* when construction declares the array, and a step that references the
\* register codes R leaves it at the maximum of its old value and every
\* c + 1 for c in R.
C2_LengthOnlyGrows ==
    [][\A i \in Instances : \A name \in ArrayNames :
          (pos[i].phase # "absent") =>
            LET old == IF pos[i].phase = "new" THEN 1
                       ELSE ArrayOf(gc[i], name).arrayLength
                refs == StaticRefs(gc'[i].module, Len(gc[i].module) + 1, name)
            IN  /\ ArrayOf(gc'[i], name).arrayLength >= old
                /\ ArrayOf(gc'[i], name).arrayLength
                      = MaxOf({old} \cup {r + 1 : r \in refs})]_vars

\* C2's case: v5, then v0 and v2 were referenced, and the length is still 6.
C2_Witness ==
    /\ pos[1].phase = "finalized"
    /\ gc[1].m_vArray.arrayLength = 6
    /\ gc[1].m_sArray.arrayLength = 2
    /\ StaticRefs(gc[1].module, 1, "v") = {0, 2, 5}

\* C3: when a register is addressed through a computed index, the tracked
\* length of its array is at least index + 1 from then on.
C3_DynamicIndexGrowsLength ==
    \A i \in Instances : \A k \in 1 .. Len(gc[i].module) :
        LET e == gc[i].module[k]
        IN  (e.op = "OpAccessChain" /\ e.b = 1) =>
                ArrayOf(gc[i], e.s).arrayLength >= e.a + 1

\* -------------------------------------------- system values and bindings

\* The positions of the operations `op` on `s` in a log.
Where(log, op, s) == {k \in 1 .. Len(log) : log[k].op = op /\ log[k].s = s}

\* C4: within one instance at most one variable is ever created for a host
\* builtin, and every load of the builtin goes through the variable created
\* first, which is the cached one.
C4_OneVariablePerBuiltin ==
    \A i \in Instances : \A b \in Builtins :
        LET log == gc[i].module
            created == Where(log, "newBuiltin", b)
        IN  /\ Cardinality(created) <= 1
            /\ \A k \in Where(log, "OpLoad", b) :
                  /\ \E j \in created : j < k /\ log[j].a = log[k].a
                  /\ gc[i].builtin[b] = log[k].a

\* C4's case: a pixel program that requested Position twice, and input
\* setup that requested it again, all served by one FragCoord variable.
C4_Witness ==
    /\ pos[1].phase = "finalized"
    /\ gc[1].cfg.type = "PS"
    /\ gc[1].cfg.perspSampleEn
    /\ Len(tokens[1][1].insList) = 2
    /\ \A k \in 1 .. 2 : tokens[1][1].insList[k].sv = "Position"
    /\ tokens[1][1].insList[1].mask # tokens[1][1].insList[2].mask
    /\ Cardinality(Where(gc[1].module, "OpLoad", "FragCoord")) = 4
    /\ Cardinality(Where(gc[1].module, "newBuiltin", "FragCoord")) = 1

\* The resource kinds: constant buffer, storage buffer, image, sampler.
ResourceKind(type) ==
    IF type \in {"eSampledImage", "eStorageImage"} THEN "image" ELSE type

\* C5: the slots recorded for a stage are a function of (kind, register
\* index), and resources of different kinds at one register index have
\* different slots.
C5_SlotsDifferAcrossKinds ==
    \A i \in Instances :
        LET slots == gc[i].m_resourceSlots
        IN  \A x, y \in 1 .. Len(slots) :
                slots[x].reg = slots[y].reg =>
                    IF ResourceKind(slots[x].type) = ResourceKind(slots[y].type)
                    THEN slots[x].slot = slots[y].slot
                    ELSE slots[x].slot # slots[y].slot

\* ----------------------------------------------------------------- finalize

Calls(log, id) == {k \in 1 .. Len(log) : log[k].op = "opFunctionCall" /\ log[k].a = id}

RegisterStores(log, from) ==
    {k \in from .. Len(log) : log[k].op = "OpStore" /\ log[k].s \in ArrayNames}

\* C6: the module of a finalized vertex, pixel or compute program ends with
\* the user function closed, then "main" begun, then input setup (lengths
\* bound, exec and vcc initialised, system values stored to their
\* registers), then the call of the fetch function exactly when one was
\* synthesized (vertex stage only), then the call of the user function, then
\* "main" closed, then the entry point; each once; the returned code is the
\* serialization of that module.
C6_FinalizeSequence ==
    \A i \in Instances :
        (pos[i].phase = "finalized" /\ gc[i].cfg.type \in {"VS", "PS", "CS"}) =>
            LET c == gc[i]
                log == c.module
                n == Len(log)
                main == Where(log, "functionBegin", "main")
                lateV == Where(log, "setLateConst", "v")
                lateS == Where(log, "setLateConst", "s")
                exec == Where(log, "StateInit", "exec")
                vcc == Where(log, "StateInit", "vcc")
                fetch == IF c.fetchFuncId = 0 THEN {} ELSE Calls(log, c.fetchFuncId)
                user == Calls(log, c.functionId)
                One(S) == Cardinality(S) = 1
                The(S) == CHOOSE k \in S : TRUE
            IN  /\ One(main) /\ One(lateV) /\ One(lateS) /\ One(exec) /\ One(vcc)
                /\ One(user)
                /\ Cardinality(Where(log, "opFunctionCall", "vs_fetch"))
                      = (IF c.fetchFuncId # 0 THEN 1 ELSE 0)
                /\ Cardinality(fetch) = (IF c.fetchFuncId # 0 THEN 1 ELSE 0)
                /\ c.fetchFuncId # 0 => c.cfg.type = "VS"
                /\ log[The(main) - 2].op = "opReturn"
                /\ log[The(main) - 1].op = "functionEnd"
                /\ The(main) < The(lateV) /\ The(lateV) < The(lateS)
                /\ The(lateS) < The(exec) /\ The(exec) < The(vcc)
                /\ \A k \in RegisterStores(log, The(main)) :
                      The(vcc) < k /\ k < The(user)
                /\ \A f \in fetch : The(vcc) < f /\ f = The(user) - 1
                /\ \A k \in RegisterStores(log, The(main)) : \A f \in fetch : k < f
                /\ The(user) = n - 3
                /\ log[n - 2].op = "opReturn"
                /\ log[n - 1].op = "functionEnd"
                /\ log[n].op = "addEntryPoint"
                /\ Cardinality({k \in 1 .. n : log[k].op = "addEntryPoint"}) = 1
                /\ c.code = serialize(c)
                /\ ~c.m_insideFunction

\* C6's case: a vertex program with a synthesized fetch function, finalized.
C6_Witness ==
    /\ pos[1].phase = "finalized"
    /\ gc[1].cfg.type = "VS"
    /\ gc[1].fetchFuncId # 0
    /\ Cardinality(Calls(gc[1].module, gc[1].fetchFuncId)) = 1
    /\ Len(tokens[1][1].insList) = 2

PositionProgram == <<CodeToken(0, <<ExportIns("Pos", 0)>>)>>

\* C7: a finalized vertex program whose token list is one Code token that
\* stores the output position has the entry point "main", exactly one
\* per-vertex output block variable, once in the interface list, and exactly
\* one call of "vs_main", inside "main".
C7_MinimalVertexProgram ==
    \A i \in Instances :
        (/\ pos[i].phase = "finalized"
         /\ gc[i].cfg.type = "VS"
         /\ tokens[i] = PositionProgram) =>
            LET c == gc[i]
                log == c.module
                entry == {k \in 1 .. Len(log) : log[k].op = "addEntryPoint"}
                blocks == Where(log, "newVar", "vs_vertex_out")
                main == Where(log, "functionBegin", "main")
                calls == Where(log, "opFunctionCall", "vs_main")
            IN  /\ Cardinality(entry) = 1
                /\ \A k \in entry : log[k].s = "main" /\ log[k].a = c.m_entryPointId
                /\ Cardinality(blocks) = 1
                /\ \A k \in blocks :
                      Cardinality({j \in 1 .. Len(c.code) :
                          c.code[j].op = "interface" /\ c.code[j].a = log[k].a}) = 1
                /\ Cardinality(calls) = 1
                /\ \A k \in calls :
                      /\ log[k].a = c.functionId
                      /\ \E m \in main :
                            /\ log[m].a = c.m_entryPointId
                            /\ m < k
                            /\ \A j \in m + 1 .. k :
                                  log[j].op \notin {"functionBegin", "functionEnd"}

\* C7's case: that program, finalized, with its store to the position member.
C7_Witness ==
    /\ pos[1].phase = "finalized"
    /\ gc[1].cfg.type = "VS"
    /\ tokens[1] = PositionProgram
    /\ Where(gc[1].module, "OpStore", "PerVertex_Position") # {}

\* ------------------------------------------------------------ control flow

Kinds(toks) == [k \in 1 .. Len(toks) |-> toks[k].kind]

CountIn(seq, S) == Cardinality({k \in 1 .. Len(seq) : seq[k] \in S})

\* No End without an open region in any prefix, no region left open.
Balanced(ks) ==
    /\ \A n \in 0 .. Len(ks) :
          CountIn(SubSeq(ks, 1, n), {"End"}) <= CountIn(SubSeq(ks, 1, n), OpenKinds)
    /\ CountIn(ks, {"End"}) = CountIn(ks, OpenKinds)

RECURSIVE OpenAt(_, _)
\* The regions open after the first n tokens of a balanced list, innermost
\* last; an If or IfNot whose Else was seen is "Else".
OpenAt(ks, n) ==
    IF n = 0 THEN <<>>
    ELSE LET before == OpenAt(ks, n - 1)
         IN  CASE ks[n] \in OpenKinds -> Append(before, ks[n])
               [] ks[n] = "End" -> SubSeq(before, 1, Len(before) - 1)
               [] ks[n] = "Else" /\ before # <<>> ->
                    [before EXCEPT ![Len(before)] = "Else"]
               [] OTHER -> before

\* A list the upstream analysis may produce: balanced, every Else directly
\* in an If or IfNot that has none yet, no Invalid token.
WellNested(ks) ==
    /\ Balanced(ks)
    /\ \A n \in 1 .. Len(ks) :
          /\ ks[n] # "Invalid"
          /\ ks[n] = "Else" =>
                LET before == OpenAt(ks, n - 1)
                IN  before # <<>> /\ before[Len(before)] \in {"If", "IfNot"}

TraceCount(tr, S) == Cardinality({k \in 1 .. Len(tr) : tr[k].s = "token" /\ tr[k].op \in S})

\* C8: each End closes exactly one innermost open region; a well-nested list
\* compiles, with as many regions opened as End tokens consumed and none
\* left open; compile() does not return normally from an unbalanced list.
C8_StructuralBalance ==
    \A i \in Instances :
        LET ks == Kinds(tokens[i])
            c == gc[i]
            opened == TraceCount(c.trace, OpenKinds)
            ended == TraceCount(c.trace, {"End"})
        IN  /\ pos[i].phase # "absent" => Len(c.blocks) = opened - ended
            /\ WellNested(ks) => pos[i].phase # "aborted"
            /\ pos[i].phase \in {"compiled", "finalized"} =>
                  /\ Balanced(ks)
                  /\ opened = ended
                  /\ c.blocks = <<>>

\* ------------------------------------------------------------- determinism

NonVariable(toks) == SelectSeq(toks, LAMBDA t : t.kind # "Variable")

RECURSIVE SumLengths(_, _)
SumLengths(insList, n) ==
    IF n = 0 THEN 0 ELSE SumLengths(insList, n - 1) + insList[n].length

\* C10: the trace of compile() is the declarations of all Variable tokens,
\* then, token by token in list order and without the Variable tokens, one
\* entry per token; a Code token's entry is followed by its instructions in
\* list order, the first at the token's pc and each next one at the pc
\* advanced by the length of the one before.
C10_CompileOrder ==
    \A i \in Instances :
        LET toks == tokens[i]
            tr == gc[i].trace
            phase == pos[i].phase
            nVar == Len(toks) - Len(NonVariable(toks))
            started == \/ phase \in {"compiling", "compiled", "finalized"}
                       \/ phase = "aborted" /\ pos[i].idx >= 1
            taken == IF phase = "aborted" THEN pos[i].idx - 2 ELSE pos[i].idx - 1
            main == SubSeq(tr, nVar + 1, Len(tr))
            marks == {p \in 1 .. Len(main) : main[p].s = "token"}
            expected == NonVariable(SubSeq(toks, 1, taken))
            Rank(p) == Cardinality({q \in marks : q <= p})
        IN  IF ~started THEN tr = <<>>
            ELSE /\ Len(tr) >= nVar
                 /\ \A k \in 1 .. Len(tr) : (tr[k].op = "Variable") = (k <= nVar)
                 /\ Cardinality(marks) = Len(expected)
                 /\ \A p \in marks :
                       LET t == expected[Rank(p)]
                       IN  /\ main[p].op = t.kind
                           /\ t.kind = "Code" =>
                                 /\ main[p].a = t.pc
                                 /\ Len(main) >= p + Len(t.insList)
                                 /\ \A n \in 1 .. Len(t.insList) :
                                       /\ main[p + n].s = "ins"
                                       /\ main[p + n].op = t.insList[n].category
                                       /\ main[p + n].b = t.insList[n].length
                                       /\ main[p + n].a
                                             = t.pc + SumLengths(t.insList, n - 1)
                 /\ \A p \in 1 .. Len(main) :
                       main[p].s = "ins" =>
                           \E q \in marks :
                               /\ q < p
                               /\ expected[Rank(q)].kind = "Code"
                               /\ p - q <= Len(expected[Rank(q)].insList)

\* C10's case: a Variable token between two Code tokens, compiled.
C10_Witness ==
    /\ pos[1].phase = "compiled"
    /\ Kinds(tokens[1]) = <<"Code", "Variable", "Code">>
    /\ Len(gc[1].trace) = 7
    /\ gc[1].trace[1].op = "Variable"
    /\ gc[1].trace[7].a = 52

\* ------------------------------------------------- values of system values

\* A SPIR-V 32-bit unsigned integer is kept as its two 16-bit halves
\* <<high, low>>; Half is the number of values of one half.
Half == 65536

U32(n) == <<n \div Half, n % Half>>

\* OpISub on 32-bit unsigned integers: the difference modulo 2^32.
ISub32(x, y) ==
    LET low == x[2] - y[2]
        borrow == IF low < 0 THEN 1 ELSE 0
    IN  <<(x[1] - y[1] - borrow) % Half, low % Half>>

\* OpIAdd on 32-bit unsigned integers: the sum modulo 2^32.
IAdd32(x, y) ==
    LET low == x[2] + y[2]
    IN  <<(x[1] + y[1] + low \div Half) % Half, low % Half>>

\* A rational n/d with d > 0, the value of a host float.
Rat(n, d) == <<n, d>>

\* 1.0 / x for x # 0.
Rcp(x) == IF x[1] > 0 THEN Rat(x[2], x[1]) ELSE Rat(0 - x[2], 0 - x[1])

\* What one component of a loaded value is at run time, the host builtins
\* having the values host[builtin][component + 1]: OpISub on 32-bit unsigned
\* integers wraps, OpFDiv of the constant 1.0 is the reciprocal, a plain
\* component is the builtin's.
EvalComp(comp, host) ==
    CASE comp[1] = "OpISub" ->
            ISub32(host[comp[2]][1], host[comp[3]][1])
      [] comp[1] = "OpFDiv" -> Rcp(host[comp[3]][comp[4] + 1])
      [] OTHER -> host[comp[1]][comp[2] + 1]

\* The system value the instance asked for last: the last request of the
\* Code token once compile() returned, VertexId of input setup once a
\* vertex program is finalized.
LastRequest(i) ==
    CASE pos[i].phase = "compiled" /\ tokens[i] # <<>>
            /\ tokens[i][Len(tokens[i])].insList # <<>> ->
            LET insList == tokens[i][Len(tokens[i])].insList
            IN  [sv |-> insList[Len(insList)].sv, mask |-> insList[Len(insList)].mask]
      [] pos[i].phase = "finalized" /\ gc[i].cfg.type = "VS" ->
            [sv |-> "VertexId", mask |-> {}]
      [] OTHER -> [sv |-> "None", mask |-> {}]

\* Host values of the index and base builtins: small ones, ones that differ
\* in the high half only, the largest.
HostIndices ==
    {U32(0), U32(5), U32(100), U32(105), <<1, 0>>, <<1, 100>>,
     <<Half - 1, Half - 1>>}

VsHost(index, base) ==
    [b \in {"VertexIndex", "InstanceIndex", "BaseVertex", "BaseInstance"} |->
        IF b \in {"VertexIndex", "InstanceIndex"} THEN <<index>> ELSE <<base>>]

\* C11: in the vertex stage the value loaded for VertexId is one unsigned
\* 32-bit component d = (vertex index - base vertex) modulo 2^32, that is
\* the 32-bit value with d + base vertex = vertex index modulo 2^32; the
\* value loaded for InstanceId is (instance index - base instance) in the
\* same way; neither is the raw index.
C11_VertexIdIsIndexMinusBase ==
    \A i \in Instances :
        (gc[i].cfg.type = "VS" /\ LastRequest(i).sv \in {"VertexId", "InstanceId"}) =>
            LET value == gc[i].ret
                index == IF LastRequest(i).sv = "VertexId"
                         THEN "VertexIndex" ELSE "InstanceIndex"
            IN  /\ value.ctype = "Uint32"
                /\ value.ccount = 1
                /\ Len(value.comps) = 1
                /\ value.comps[1] # <<index, 0>>
                /\ \A x \in HostIndices, base \in HostIndices :
                      LET host == VsHost(x, base)
                          d == EvalComp(value.comps[1], host)
                      IN  /\ d \in (0 .. Half - 1) \X (0 .. Half - 1)
                          /\ IAdd32(d, base) = x
                          /\ base # U32(0) => d # x

\* C11's case: a vertex program asked for VertexId, then for InstanceId;
\* vertex index 105 and base vertex 100 give 5.
C11_Witness ==
    /\ pos[1].phase = "compiled"
    /\ gc[1].cfg.type = "VS"
    /\ Len(tokens[1][1].insList) = 2
    /\ tokens[1][1].insList[1].sv = "VertexId"
    /\ LastRequest(1).sv = "InstanceId"
    /\ EvalComp(gc[1].ret.comps[1], VsHost(U32(105), U32(100))) = U32(5)
    /\ EvalComp(gc[1].ret.comps[1], VsHost(U32(100), U32(105)))
          = <<Half - 1, Half - 5>>

\* Host fragment coordinates (x, y, z, w), w # 0.
FragCoords ==
    {<<Rat(10, 1), Rat(20, 1), Rat(1, 2), Rat(2, 1)>>,
     <<Rat(0, 1), Rat(7, 2), Rat(1, 1), Rat(1, 3)>>,
     <<Rat(3, 1), Rat(3, 1), Rat(0, 1), Rat(0 - 4, 1)>>}

\* r = 1 / x: r * x = 1, r written with a positive denominator.
IsReciprocal(r, x) == r[1] * x[1] = r[2] * x[2] /\ r[2] > 0 /\ r[1] # 0

\* C12: in the pixel stage the value loaded for Position through a mask
\* that selects the single component k is one Float32 component: the
\* fragment coordinate's component k itself for k in 0..2, and 1/w for k = 3.
C12_PositionWIsReciprocal ==
    \A i \in Instances :
        (/\ gc[i].cfg.type = "PS"
         /\ LastRequest(i).sv = "Position"
         /\ PopCount(LastRequest(i).mask) = 1) =>
            LET value == gc[i].ret
                k == CHOOSE n \in LastRequest(i).mask : TRUE
            IN  /\ value.ctype = "Float32"
                /\ value.ccount = 1
                /\ Len(value.comps) = 1
                /\ \A coord \in FragCoords :
                      LET loaded == EvalComp(value.comps[1], [b \in {"FragCoord"} |-> coord])
                      IN  IF k = 3 THEN IsReciprocal(loaded, coord[4])
                          ELSE loaded = coord[k + 1]

\* C12's case: a pixel program asked for Position.z, then for Position.w; the
\* fragment coordinate (10, 20, 0.5, 2.0) gives 0.5.
C12_Witness ==
    /\ pos[1].phase = "compiled"
    /\ gc[1].cfg.type = "PS"
    /\ Len(tokens[1][1].insList) = 2
    /\ tokens[1][1].insList[1].sv = "Position"
    /\ tokens[1][1].insList[1].mask = {2}
    /\ LastRequest(1) = [sv |-> "Position", mask |-> {3}]
    /\ EvalComp(gc[1].ret.comps[1],
                [b \in {"FragCoord"} |-> <<Rat(10, 1), Rat(20, 1), Rat(1, 2), Rat(2, 1)>>])
          = Rat(1, 2)

\* ------------------------------------------------------- operand claims

\* The operand fields the register layer does not recognise.
UnrecognizedFields == {"VccZ", "ExecZ", "Scc", "LdsDirect", "Undefined", "Reserved"}

\* The instructions of the run's Code token.
InsListOf(i) == IF tokens[i] = <<>> THEN <<>> ELSE tokens[i][1].insList

\* The handlers entered so far, in order.
Entered(i) == SelectSeq(gc[i].trace, LAMBDA e : e.s = "ins")

Unsupported(ins) ==
    \/ ins.category = "Undefined"
    \/ \E k \in 1 .. Len(ins.src) : ins.src[k].field \in UnrecognizedFields
    \/ \E k \in 1 .. Len(ins.dst) : ins.dst[k].field \in UnrecognizedFields

\* C13: compile() does not return normally from a Code token that holds an
\* instruction of category Undefined or an operand, read or written, whose
\* field is Undefined, VccZ, ExecZ, Scc, LdsDirect or unlisted; the k-th
\* handler entered is the family of the k-th instruction's category, an
\* Undefined instruction enters none, and when no instruction is unsupported
\* in that sense and compile() returned, every instruction entered its family.
C13_UnsupportedAborts ==
    \A i \in Instances :
        LET P == InsListOf(i)
            tr == Entered(i)
            phase == pos[i].phase
        IN  /\ Len(tr) <= Len(P)
            /\ \A k \in 1 .. Len(tr) :
                  /\ tr[k].op = P[k].category
                  /\ tr[k].op \in InstCategories
            /\ phase \in {"compiled", "finalized"} =>
                  /\ \A k \in 1 .. Len(P) : ~Unsupported(P[k])
                  /\ Len(tr) = Len(P)
            /\ (phase = "aborted" /\ pos[i].idx >= 2) =>
                  \/ Len(tr) < Len(P) /\ P[Len(tr) + 1].category = "Undefined"
                  \/ Len(tr) >= 1 /\ P[Len(tr)].category # "Undefined"

\* C13's case: the handler of a vector instruction was entered and the read
\* of its LdsDirect operand ended the compilation.
C13_Witness ==
    /\ pos[1].phase = "aborted"
    /\ Len(InsListOf(1)) = 1
    /\ InsListOf(1)[1].src # <<>>
    /\ InsListOf(1)[1].src[1].field = "LdsDirect"
    /\ Len(Entered(1)) = 1

\* ---------------------------------------------------------- vertex fetch

HasUsage(cfg, usage) ==
    \E k \in 1 .. Len(cfg.resTable) : cfg.resTable[k].usage = usage

\* The constructor returned normally.
Built(i) ==
    \/ pos[i].phase \in {"constructed", "compiling", "compiled", "finalized"}
    \/ pos[i].phase = "aborted" /\ pos[i].idx >= 1

RECURSIVE FetchTargets(_)
\* The VGPR codes the fetch function writes, in order.
FetchTargets(semas) ==
    IF semas = <<>> THEN <<>>
    ELSE [k \in 1 .. Head(semas).num_elements |-> Head(semas).dest_vgpr + k - 1]
         \o FetchTargets(Tail(semas))

\* C14: a constructor given a resource table with a vertex-buffer-table
\* entry and no fetch-shader entry does not return; given both (in either
\* order) in the vertex stage it returns, having declared one input variable
\* per semantic and synthesized one fetch function that loads each input
\* and stores it to its destination VGPRs; finalize() calls that function
\* once, directly before the user function.
C14_VertexInputsNeedFetchShader ==
    \A i \in Instances :
        LET c == gc[i]
            log == c.module
            semas == c.cfg.semantics
            hasVb == HasUsage(c.cfg, "PtrVertexBufferTable")
            hasFs == HasUsage(c.cfg, "SubPtrFetchShader")
            begin == Where(log, "functionBegin", "vs_fetch")
        IN  /\ (hasVb /\ ~hasFs /\ pos[i].phase # "absent") => ~Built(i)
            /\ (hasVb /\ hasFs /\ c.cfg.type = "VS" /\ pos[i].phase # "new") => Built(i)
            /\ (hasVb /\ Built(i)) =>
                  /\ c.cfg.type = "VS"
                  /\ \A k \in 1 .. Len(semas) :
                        LET decls == {j \in Where(log, "newVar", "i") :
                                         log[j].b = semas[k].semantic}
                        IN  /\ Cardinality(decls) = 1
                            /\ \A j \in decls :
                                  /\ c.m_inputs[semas[k].semantic] = log[j].a
                                  /\ \E n \in 1 .. Len(c.m_entryPointInterfaces) :
                                        c.m_entryPointInterfaces[n] = log[j].a
                  /\ Cardinality(Where(log, "newVar", "i")) = Len(semas)
                  /\ c.fetchFuncId # 0
                  /\ Cardinality(begin) = 1
                  /\ \A b \in begin :
                        LET end == CHOOSE e \in b + 1 .. Len(log) :
                                      /\ log[e].op = "opReturn"
                                      /\ \A j \in b + 1 .. e - 1 : log[j].op # "opReturn"
                            stores == SelectSeq(SubSeq(log, b, end),
                                                LAMBDA e : e.op = "OpStore")
                            loads == SelectSeq(SubSeq(log, b, end),
                                               LAMBDA e : e.op = "OpLoad")
                        IN  /\ log[b].a = c.fetchFuncId
                            /\ [k \in 1 .. Len(stores) |-> stores[k].a] = FetchTargets(semas)
                            /\ \A k \in 1 .. Len(stores) : stores[k].s = "v"
                            /\ [k \in 1 .. Len(loads) |-> loads[k].a]
                                  = [k \in 1 .. Len(semas) |-> c.m_inputs[semas[k].semantic]]
            /\ (hasVb /\ pos[i].phase = "finalized") =>
                  /\ Cardinality(Calls(log, c.fetchFuncId)) = 1
                  /\ Cardinality(Where(log, "opFunctionCall", "vs_fetch")) = 1
                  /\ \A f \in Calls(log, c.fetchFuncId) :
                        /\ log[f + 1] = Op("opFunctionCall", "vs_main", c.functionId, 0)
                        /\ \E m \in Where(log, "functionBegin", "main") :
                              /\ m < f
                              /\ \A j \in m + 1 .. f :
                                    log[j].op \notin {"functionBegin", "functionEnd"}

\* C14's case: a finalized vertex program whose table names the vertex
\* buffer table before the fetch shader, with two semantics.
C14_Witness ==
    /\ pos[1].phase = "finalized"
    /\ gc[1].cfg.type = "VS"
    /\ Len(gc[1].cfg.semantics) = 2
    /\ gc[1].cfg.resTable[1].usage = "PtrVertexBufferTable"
    /\ HasUsage(gc[1].cfg, "SubPtrFetchShader")
    /\ Cardinality(Calls(gc[1].module, gc[1].fetchFuncId)) = 1
    /\ gc[1].m_vArray.arrayLength >= 6

\* ------------------------------------------------------ resource mapping

\* The active binding and the declared variable of a descriptor type at a
\* register index.
ActiveBinding(c, type, reg) ==
    CASE type \in {"eUniformBuffer", "eStorageBuffer"} -> c.m_buffers[reg]
      [] type \in {"eSampledImage", "eStorageImage"} -> c.m_textures[reg]
      [] type = "eSampler" -> c.m_samplers[reg]

DeclaredAt(c, type, reg) ==
    CASE type \in {"eUniformBuffer", "eStorageBuffer"} -> c.m_buffersDcl[reg]
      [] type \in {"eSampledImage", "eStorageImage"} -> c.m_texturesDcl[reg]
      [] type = "eSampler" -> c.m_samplersDcl[reg]

BindingFamily(type) ==
    CASE type \in {"eUniformBuffer", "eStorageBuffer"} -> "buffer"
      [] type \in {"eSampledImage", "eStorageImage"} -> "texture"
      [] OTHER -> type

\* C15: when the constructor has returned, each entry of the resource table
\* that is a buffer, an image or a sampler and is not flagged as in the
\* extended user-data table has the variable declared for it as the active
\* binding at its register index, and the active binding at the register
\* index of a flagged entry is still unbound (unless an unflagged entry of
\* the same family names the same register).
C15_EudResourcesStayUnbound ==
    \A i \in Instances :
        pos[i].phase = "constructed" =>
            LET c == gc[i]
                table == c.cfg.resTable
            IN  \A k \in 1 .. Len(table) :
                    LET res == table[k]
                        declared == {j \in 1 .. Len(c.module) :
                            /\ c.module[j].op = "newVar"
                            /\ c.module[j].b = res.startRegister
                            /\ c.module[j].a = DeclaredAt(c, res.type, res.startRegister)}
                    IN  res.type # "MaxEnum" =>
                            /\ declared # {}
                            /\ DeclaredAt(c, res.type, res.startRegister) # 0
                            /\ ~res.inEud =>
                                  ActiveBinding(c, res.type, res.startRegister)
                                     = DeclaredAt(c, res.type, res.startRegister)
                            /\ (/\ res.inEud
                                /\ \A n \in 1 .. Len(table) :
                                      (/\ BindingFamily(table[n].type) = BindingFamily(res.type)
                                       /\ table[n].startRegister = res.startRegister)
                                      => table[n].inEud) =>
                                  ActiveBinding(c, res.type, res.startRegister) = 0

\* C15's case: a constructed program with a flagged constant buffer and a
\* flagged sampler, and unflagged ones of both kinds.
C15_Witness ==
    /\ pos[1].phase = "constructed"
    /\ Len(gc[1].cfg.resTable) = 5
    /\ gc[1].cfg.resTable[1].inEud
    /\ gc[1].m_buffersDcl[0] # 0
    /\ gc[1].m_buffers[0] = 0
    /\ gc[1].m_samplers[1] = 0
    /\ gc[1].m_buffers[2] # 0
    /\ gc[1].m_samplers[3] # 0

\* The accesses to the register arrays emitted so far, in order.
RegisterAccesses(log) ==
    SelectSeq(log, LAMBDA e : e.op \in {"OpAccessChain", "OpLoad", "OpStore"}
                              /\ e.s \in ArrayNames)

\* What a 64-bit access at register code c of array `name` emits: the slot
\* c, then the slot c + 1, each a pointer and one load or store.
PairAccess(name, code, op) ==
    <<Op("OpAccessChain", name, code, 0), Op(op, name, code, 0),
      Op("OpAccessChain", name, code + 1, 0), Op(op, name, code + 1, 0)>>

\* The one operand of a one-operand instruction, and whether it is written.
OperandOf(ins) == IF ins.src # <<>> THEN ins.src[1] ELSE ins.dst[1]

\* C16: after a Code token with one instruction that reads or writes one
\* SGPR or VGPR operand at register code c, a 64-bit integer operand type
\* has produced exactly the accesses to the slots c and c + 1, in that
\* order, and a Float64 operand type has ended the compilation without any
\* access, whether the operand is read or written.
C16_SixtyFourBitAccess ==
    \A i \in Instances :
        LET P == InsListOf(i)
        IN  (/\ Len(P) = 1
             /\ Len(P[1].src) + Len(P[1].dst) = 1
             /\ OperandOf(P[1]).field \in {"ScalarGPR", "VectorGPR"}
             /\ pos[i].phase \in {"compiled", "aborted"}
             /\ pos[i].idx >= 2) =>
                LET reg == OperandOf(P[1])
                    name == IF reg.field = "VectorGPR" THEN "v" ELSE "s"
                    op == IF P[1].src # <<>> THEN "OpLoad" ELSE "OpStore"
                    accesses == RegisterAccesses(gc[i].module)
                IN  /\ reg.type \in {"Sint64", "Uint64"} =>
                          /\ pos[i].phase = "compiled"
                          /\ accesses = PairAccess(name, reg.code, op)
                    /\ reg.type = "Float64" =>
                          /\ pos[i].phase = "aborted"
                          /\ accesses = <<>>

\* The part of C16 about 64-bit integers and about Float64 reads.
C16_IntegerPairsAndFloat64Loads ==
    \A i \in Instances :
        LET P == InsListOf(i)
        IN  (/\ Len(P) = 1
             /\ Len(P[1].src) + Len(P[1].dst) = 1
             /\ OperandOf(P[1]).field \in {"ScalarGPR", "VectorGPR"}
             /\ pos[i].phase \in {"compiled", "aborted"}
             /\ pos[i].idx >= 2) =>
                LET reg == OperandOf(P[1])
                    name == IF reg.field = "VectorGPR" THEN "v" ELSE "s"
                    op == IF P[1].src # <<>> THEN "OpLoad" ELSE "OpStore"
                    accesses == RegisterAccesses(gc[i].module)
                IN  /\ reg.type \in {"Sint64", "Uint64"} =>
                          /\ pos[i].phase = "compiled"
                          /\ accesses = PairAccess(name, reg.code, op)
                    /\ (reg.type = "Float64" /\ op = "OpLoad") =>
                          /\ pos[i].phase = "aborted"
                          /\ accesses = <<>>

\* C16's failing case: a Float64 operand was written, to two slots.
C16_Witness ==
    /\ pos[1].phase = "compiled"
    /\ Len(InsListOf(1)) = 1
    /\ InsListOf(1)[1].dst # <<>>
    /\ InsListOf(1)[1].dst[1] = Operand("ScalarGPR", "Float64", 2)
    /\ RegisterAccesses(gc[1].module) = PairAccess("s", 2, "OpStore")

\* ------------------------------------------------------------ value store

\* The last call recorded in the history of instance i.
LastCall(i) == gc[i].trace[Len(gc[i].trace)]

StateInits(log, name) ==
    {<<log[k].a, log[k].b>> : k \in Where(log, "StateInit", name)}

\* <<ballot word 0, ballot word 1>>, or <<ballot word 0, constant 0>> under
\* wide-subgroup emulation.
BallotHalves(cfg) == IF cfg.separateSubgroup THEN <<0, -1>> ELSE <<0, 1>>

\* C18 as stated: input setup of a finalized vertex, pixel or compute program
\* has given both exec and vcc the halves of the ballot of the constant
\* true: words 0 and 1 without wide-subgroup emulation, word 0 and the
\* constant 0 with it.
C18_ExecAndVccFromBallot ==
    \A i \in Instances :
        (pos[i].phase = "finalized" /\ gc[i].cfg.type \in {"VS", "PS", "CS"}) =>
            /\ Cardinality({k \in 1 .. Len(gc[i].module) :
                    gc[i].module[k].op = "opGroupNonUniformBallot"}) = 1
            /\ StateInits(gc[i].module, "exec") = {BallotHalves(gc[i].cfg)}
            /\ StateInits(gc[i].module, "vcc") = {BallotHalves(gc[i].cfg)}

\* C18, amended: input setup of a finalized vertex, pixel or compute program
\* has taken one ballot of the constant true and given exec its halves
\* (words 0 and 1 without wide-subgroup emulation, word 0 and the constant 0
\* with it), once and after the ballot; vcc has been given the constant 0
\* in both halves, once.
C18_ExecFromBallotVccZero ==
    \A i \in Instances :
        (pos[i].phase = "finalized" /\ gc[i].cfg.type \in {"VS", "PS", "CS"}) =>
            LET log == gc[i].module
                ballots == {k \in 1 .. Len(log) : log[k].op = "opGroupNonUniformBallot"}
            IN  /\ Cardinality(ballots) = 1
                /\ Cardinality(Where(log, "StateInit", "exec")) = 1
                /\ Cardinality(Where(log, "StateInit", "vcc")) = 1
                /\ \A b \in ballots : \A k \in Where(log, "StateInit", "exec") : b < k
                /\ StateInits(log, "exec") = {BallotHalves(gc[i].cfg)}
                /\ StateInits(log, "vcc") = {<<-1, -1>>}

\* C18's case: a program finalized with wide-subgroup emulation.
C18_Witness ==
    /\ pos[1].phase = "finalized"
    /\ gc[1].cfg.separateSubgroup
    /\ StateInits(gc[1].module, "exec") = {<<0, -1>>}
    /\ StateInits(gc[1].module, "vcc") = {<<-1, -1>>}

\* ---------------------------------------------------------- late constants

\* The late constants declared for array `name`, and the values given to the
\* constant id.
LateDeclared(log, name) == Where(log, "lateConst32", name)

LateResolved(log, id) ==
    {k \in 1 .. Len(log) : log[k].op = "setLateConst" /\ log[k].a = id}

\* Each length constant declared at construction was given its value exactly
\* once before the entry point was declared and the module serialized.
LateConstantsResolved(c) ==
    \A name \in ArrayNames :
        /\ Cardinality(LateDeclared(c.module, name)) = 1
        /\ \A d \in LateDeclared(c.module, name) :
              LET given == LateResolved(c.module, c.module[d].a)
              IN  /\ c.module[d].a = ArrayOf(c, name).arrayLengthId
                  /\ Cardinality(given) = 1
                  /\ \A k \in given :
                        /\ d < k
                        /\ \E m \in Where(c.module, "functionBegin", "main") : m < k
                        /\ \E e \in k + 1 .. Len(c.module) :
                              c.module[e].op = "addEntryPoint"
                        /\ c.module[k].s = name

\* C19: whatever the program type (vertex, pixel, compute, hull, domain,
\* geometry), the module finalize() returns has each register-array length
\* constant declared at construction given its value exactly once, during
\* finalize() and before serialization.
C19_LateConstantsResolved ==
    \A i \in Instances :
        pos[i].phase = "finalized" => LateConstantsResolved(gc[i])

\* The part of C19 about the vertex, pixel and compute stages.
C19_ResolvedInSupportedStages ==
    \A i \in Instances :
        (pos[i].phase = "finalized" /\ gc[i].cfg.type \in {"VS", "PS", "CS"}) =>
            LateConstantsResolved(gc[i])

\* C19's failing case: a geometry program whose finalize() returned a module
\* with both length constants declared and neither given a value.
C19_Witness ==
    /\ pos[1].phase = "finalized"
    /\ gc[1].cfg.type = "GS"
    /\ gc[1].code # <<>>
    /\ \A name \in ArrayNames :
          /\ Cardinality(LateDeclared(gc[1].module, name)) = 1
          /\ LateResolved(gc[1].module, ArrayOf(gc[1], name).arrayLengthId) = {}

\* ------------------------------------------------------ kernel semaphore

\* Most calls of Wait one thread makes.
MaxCalls == 1

SemThreads == {1, 2}

NeedCounts == {1, 2}

\* What a read of need_count through a dangling waiter reference can give.
GarbageCounts == NeedCounts \cup {0 - 1}

\* A thread of the guest program.  pc is "running" outside Wait, "enqueued"
\* once its waiter is in the list and it holds the waiter's mutex, "blocked"
\* inside cv.wait / cv.wait_for, "notified" once Signal called notify_one.
\* calls counts its calls of Wait; the waiter record of its k-th call is
\* the pair (thread, k), and lives on the stack of that call.  waited tells
\* whether the last call enqueued a waiter.
Thread(priority) ==
    [pc |-> "running", calls |-> 0, timed |-> FALSE, waited |-> FALSE,
     result |-> "none", priority |-> priority]

\* The caller of Signal: "idle" outside Signal, "loop" inside its loop
\* at the k-th waiter.  list0 and tokens0 are ghosts: the wait list and the
\* token count the loop started from.
Signaller ==
    [pc |-> "idle", k |-> 0, count |-> 0, result |-> "none",
     list0 |-> <<>>, tokens0 |-> 0]

\* Semaphore::Semaphore.  mutex is "free" or "signal" (held by the caller of
\* Signal; Wait holds it within one step only).  deducted is a ghost: the
\* waiter records Signal deducted tokens for, each with whether its thread
\* was blocked on it.  arrivals is a ghost: the calls of AddWaiter so far.
Semaphore(init_count, max_count, is_fifo, priorities) ==
    [created |-> TRUE, token_count |-> init_count, max_count |-> max_count,
     is_fifo |-> is_fifo, wait_list |-> <<>>,
     th |-> [t \in SemThreads |-> Thread(priorities[t])],
     mutex |-> "free", sig |-> Signaller,
     crashed |-> FALSE, deducted |-> {}, arrivals |-> 0]

\* WaitingThread::WaitingThread.  arrival is a ghost: the waiter is the
\* arrival-th one AddWaiter was called for.
WaitingThread(t, serial, need_count, priority, arrival) ==
    [thread |-> t, serial |-> serial, need_count |-> need_count,
     priority |-> priority, arrival |-> arrival]

\* The record w is still an object: its call of Wait has not returned.
Alive(s, w) ==
    /\ s.th[w.thread].pc \in {"enqueued", "blocked"}
    /\ s.th[w.thread].calls = w.serial

InsertAt(list, p, w) ==
    [k \in 1 .. Len(list) + 1 |->
        IF k < p THEN list[k] ELSE IF k = p THEN w ELSE list[k - 1]]

RemoveAt(list, p) ==
    [k \in 1 .. Len(list) - 1 |-> IF k < p THEN list[k] ELSE list[k + 1]]

\* AddWaiter: the lists it can leave.  The priority of a record whose call
\* returned is read from a dead stack frame, so the comparison goes either way.
AddWaiter(s, w) ==
    IF s.is_fifo THEN {Append(s.wait_list, w)}
    ELSE {InsertAt(s.wait_list, p, w) :
            p \in {q \in 1 .. Len(s.wait_list) + 1 :
                    /\ \A j \in 1 .. q - 1 :
                          Alive(s, s.wait_list[j]) => s.wait_list[j].priority > w.priority
                    /\ q <= Len(s.wait_list) =>
                          (Alive(s, s.wait_list[q]) => s.wait_list[q].priority <= w.priority)}}

\* Signal's loop body for the k-th waiter, which read need_count as n.
Serve(s, k, n) ==
    LET w == s.wait_list[k]
    IN  [s EXCEPT !.token_count = s.token_count - n,
                  !.wait_list = RemoveAt(s.wait_list, k),
                  !.th = IF Alive(s, w)
                         THEN [s.th EXCEPT ![w.thread].pc = "notified"]
                         ELSE s.th,
                  !.deducted = s.deducted \cup
                      {[thread |-> w.thread, serial |-> w.serial, blocked |-> Alive(s, w)]}]

InitSem ==
    /\ NoCompiler
    /\ eq = NoEqueue
    /\ tc = NoTextureCache
    /\ \E max_count \in {2, 3}, init_count \in {0, 1}, is_fifo \in BOOLEAN,
          priorities \in {<<1, 1>>, <<2, 1>>, <<1, 2>>} :
          sem = Semaphore(init_count, max_count, is_fifo, priorities)

\* Semaphore::Wait up to the point where the caller returns, or has released
\* the semaphore's mutex holding its waiter's mutex (line 40).
Wait(t) ==
    /\ ~sem.crashed
    /\ sem.mutex = "free"
    /\ sem.th[t].pc = "running"
    /\ sem.th[t].calls < MaxCalls
    /\ \E can_block \in BOOLEAN, need_count \in NeedCounts, timed \in BOOLEAN :
          LET called == [sem EXCEPT !.th[t].calls = @ + 1, !.th[t].timed = timed,
                                    !.th[t].waited = FALSE]
          IN  IF sem.token_count >= need_count
              THEN sem' = [called EXCEPT !.token_count = @ - need_count,
                                         !.th[t].result = "ORBIS_OK"]
              ELSE IF ~can_block
              THEN sem' = [called EXCEPT !.th[t].result = "EBUSY"]
              ELSE \E list \in AddWaiter(sem, WaitingThread(t, called.th[t].calls,
                                              need_count, sem.th[t].priority,
                                              sem.arrivals + 1)) :
                      sem' = [called EXCEPT !.wait_list = list,
                                            !.arrivals = @ + 1,
                                            !.th[t].pc = "enqueued",
                                            !.th[t].waited = TRUE,
                                            !.th[t].result = "none"]
    /\ UNCHANGED <<gc, tokens, pos, eq, tc>>

\* WaitingThread::Wait: cv.wait / cv.wait_for releases the waiter's mutex and
\* the thread sleeps.
Sleep(t) ==
    /\ ~sem.crashed
    /\ sem.th[t].pc = "enqueued"
    /\ sem' = [sem EXCEPT !.th[t].pc = "blocked"]
    /\ UNCHANGED <<gc, tokens, pos, eq, tc>>

\* WaitingThread::Wait: cv.wait_for ran out of time, and Wait returns.
Timeout(t) ==
    /\ ~sem.crashed
    /\ sem.th[t].pc = "blocked"
    /\ sem.th[t].timed
    /\ sem' = [sem EXCEPT !.th[t].pc = "running", !.th[t].result = "ETIMEDOUT"]
    /\ UNCHANGED <<gc, tokens, pos, eq, tc>>

\* WaitingThread::Wait: cv.wait / cv.wait_for unblocks spuriously, as a
\* condition variable may; no predicate is rechecked and Wait returns.
SpuriousWake(t) ==
    /\ ~sem.crashed
    /\ sem.th[t].pc = "blocked"
    /\ sem' = [sem EXCEPT !.th[t].pc = "running", !.th[t].result = "ORBIS_OK"]
    /\ UNCHANGED <<gc, tokens, pos, eq, tc>>

\* WaitingThread::Wait: the notified thread returns.  A timed wait whose
\* time ran out before it got the mutex back still reports the timeout.
Wake(t) ==
    /\ ~sem.crashed
    /\ sem.th[t].pc = "notified"
    /\ \E status \in IF sem.th[t].timed THEN {"ORBIS_OK", "ETIMEDOUT"} ELSE {"ORBIS_OK"} :
          sem' = [sem EXCEPT !.th[t].pc = "running", !.th[t].result = status]
    /\ UNCHANGED <<gc, tokens, pos, eq, tc>>

\* Semaphore::Signal up to its loop (lines 45-49), and sceKernelSignalSema's
\* EINVAL when it returns false.
SignalBegin ==
    /\ ~sem.crashed
    /\ sem.mutex = "free"
    /\ \E signal_count \in {1, 2} :
          IF sem.token_count + signal_count > sem.max_count
          THEN sem' = [sem EXCEPT !.sig = [Signaller EXCEPT !.count = signal_count,
                                                            !.result = "EINVAL"]]
          ELSE sem' = [sem EXCEPT
                  !.token_count = @ + signal_count,
                  !.mutex = "signal",
                  !.sig = [pc |-> "loop", k |-> 1, count |-> signal_count,
                           result |-> "none", list0 |-> sem.wait_list,
                           tokens0 |-> sem.token_count + signal_count]]
    /\ UNCHANGED <<gc, tokens, pos, eq, tc>>

\* Semaphore::Signal: one turn of the loop (lines 52-62).  Taking the mutex
\* of a waiter that has not gone to sleep yet has to wait for it.  A record
\* whose call returned is a dangling reference: need_count reads as
\* anything, and locking its mutex may end the process.
SignalStep ==
    /\ ~sem.crashed
    /\ sem.sig.pc = "loop"
    /\ sem.sig.k <= Len(sem.wait_list)
    /\ LET w == sem.wait_list[sem.sig.k]
           reads == IF Alive(sem, w) THEN {w.need_count} ELSE GarbageCounts
       IN  \/ \E n \in reads :
                 IF n > sem.token_count
                 THEN sem' = [sem EXCEPT !.sig.k = @ + 1]
                 ELSE /\ Alive(sem, w) => sem.th[w.thread].pc = "blocked"
                      /\ sem' = Serve(sem, sem.sig.k, n)
           \/ /\ ~Alive(sem, w)
              /\ sem' = [sem EXCEPT !.crashed = TRUE]
    /\ UNCHANGED <<gc, tokens, pos, eq, tc>>

\* Semaphore::Signal: the loop is over, Signal returns true.
SignalEnd ==
    /\ ~sem.crashed
    /\ sem.sig.pc = "loop"
    /\ sem.sig.k > Len(sem.wait_list)
    /\ sem' = [sem EXCEPT !.mutex = "free",
                           !.sig = [Signaller EXCEPT !.count = sem.sig.count,
                                                     !.result = "ORBIS_OK"]]
    /\ UNCHANGED <<gc, tokens, pos, eq, tc>>

NextSem ==
    \/ \E t \in SemThreads : Wait(t)
    \/ \E t \in SemThreads : Sleep(t)
    \/ \E t \in SemThreads : Timeout(t)
    \/ \E t \in SemThreads : SpuriousWake(t)
    \/ \E t \in SemThreads : Wake(t)
    \/ SignalBegin
    \/ SignalStep
    \/ SignalEnd

SpecSem == InitSem /\ [][NextSem]_vars

\* The threads and the caller of Signal are scheduled: a thread that can go
\* to sleep or return does, and a Signal that can go on does.
SpecSemFair ==
    /\ SpecSem
    /\ \A t \in SemThreads : WF_vars(Sleep(t)) /\ WF_vars(Wake(t))
    /\ WF_vars(SignalStep) /\ WF_vars(SignalEnd)

\* -------------------------------------------------------------- C20

\* C20: a waiter whose timed Wait returned ETIMEDOUT is no longer in the
\* wait list: every record in the list belongs to a thread still blocked in
\* that call of Wait, and Signal deducted tokens only for records whose
\* thread was blocked on them.
C20_TimedOutWaiterUnlinked ==
    /\ \A k \in 1 .. Len(sem.wait_list) : Alive(sem, sem.wait_list[k])
    /\ \A d \in sem.deducted : d.blocked

\* A timed Wait returned ETIMEDOUT, and a later Signal deducted tokens for
\* its waiter record.
C20_Witness ==
    \E t \in SemThreads :
        /\ sem.th[t].pc = "running"
        /\ sem.th[t].result = "ETIMEDOUT"
        /\ [thread |-> t, serial |-> sem.th[t].calls, blocked |-> FALSE] \in sem.deducted

\* -------------------------------------------------------------- C21

TokenCountInRange == sem.token_count >= 0 /\ sem.token_count <= sem.max_count

\* A step in which Signal returned: sceKernelSignalSema's result is new.
SignalReturned(result) ==
    /\ sem'.sig # sem.sig
    /\ sem'.sig.pc = "idle"
    /\ sem'.sig.result = result

\* C21: the token count stays within 0 .. max_count under every interleaving
\* of Wait, Poll and Signal, and a Signal that would exceed max_count
\* returns EINVAL and leaves the token count and the wait list unchanged,
\* while a Signal that enters its loop did not exceed it.
C21_TokenCountBounded ==
    /\ []TokenCountInRange
    /\ [][/\ SignalReturned("EINVAL") =>
                /\ sem.token_count + sem'.sig.count > sem.max_count
                /\ sem'.token_count = sem.token_count
                /\ sem'.wait_list = sem.wait_list
          /\ (sem.sig.pc = "idle" /\ sem'.sig.pc = "loop") =>
                /\ sem.token_count + sem'.sig.count <= sem.max_count
                /\ sem'.token_count = sem.token_count + sem'.sig.count]_vars

\* The count leaves the range only after Signal deducted through a dangling
\* waiter record.
C21_BoundedWithoutDanglingWaiters ==
    (\A d \in sem.deducted : d.blocked) => TokenCountInRange

\* Signal deducted through the record of a returned Wait and the token
\* count is above max_count.
C21_Witness ==
    /\ sem.created
    /\ sem.token_count > sem.max_count
    /\ \E d \in sem.deducted : ~d.blocked

\* -------------------------------------------------------------- C22

\* Signal's loop stands at the waiter of thread t, which waits without
\* timeout and whose need the tokens cover; t may not be asleep yet.
Chosen(t) ==
    /\ sem.sig.pc = "loop"
    /\ sem.sig.k <= Len(sem.wait_list)
    /\ LET w == sem.wait_list[sem.sig.k]
       IN  /\ w.thread = t
           /\ Alive(sem, w)
           /\ w.need_count <= sem.token_count
    /\ ~sem.th[t].timed

\* Signal deducted for thread t, which waits without timeout, and removed it.
Notified(t) == sem.th[t].pc = "notified" /\ ~sem.th[t].timed

\* Thread t is back from a Wait that had enqueued it, with ORBIS_OK.
ReturnedOk(t) ==
    /\ sem.th[t].pc = "running"
    /\ sem.th[t].waited
    /\ sem.th[t].result = "ORBIS_OK"

DeductedFor(t) ==
    [thread |-> t, serial |-> sem.th[t].calls, blocked |-> TRUE] \in sem.deducted

\* C22: no wakeup is lost: a thread waiting without timeout that Signal
\* selects returns ORBIS_OK from Wait, wherever the Signal falls between
\* its enqueueing and its sleep; and a thread that waited without timeout
\* returns ORBIS_OK only after Signal deducted its need_count.
C22_NoLostWakeup ==
    /\ \A t \in SemThreads : (Chosen(t) \/ Notified(t)) ~> ReturnedOk(t)
    /\ [](\A t \in SemThreads :
            (ReturnedOk(t) /\ ~sem.th[t].timed) => DeductedFor(t))

\* The first half alone, while the process lives: a selected waiter returns.
C22_SelectedWaiterReturns ==
    \A t \in SemThreads :
        (Chosen(t) \/ Notified(t)) ~> (ReturnedOk(t) \/ sem.crashed)

\* A thread that waited without timeout is back with ORBIS_OK although no
\* Signal deducted for it.
C22_Witness ==
    \E t \in SemThreads :
        /\ sem.created
        /\ ReturnedOk(t)
        /\ ~sem.th[t].timed
        /\ ~DeductedFor(t)

\* -------------------------------------------------------------- C26

RECURSIVE WakeInOrder(_, _)
\* What one walk over the wait list from the front leaves with `avail`
\* tokens: the waiters that stay, the tokens that stay, the waiters woken.
WakeInOrder(list, avail) ==
    IF list = <<>> THEN [list |-> <<>>, tokens |-> avail, woken |-> {}]
    ELSE LET w == Head(list)
         IN  IF w.need_count > avail
             THEN LET rest == WakeInOrder(Tail(list), avail)
                  IN  [rest EXCEPT !.list = <<w>> \o rest.list]
             ELSE LET rest == WakeInOrder(Tail(list), avail - w.need_count)
                  IN  [rest EXCEPT !.woken = rest.woken \cup {w}]

\* The state Signal returns true in is the one the walk from the state it
\* started in leaves, and every waiter the walk wakes was blocked when
\* Signal deducted for it.
SignalWokeInOrder(before, after) ==
    LET walk == WakeInOrder(before.sig.list0, before.sig.tokens0)
    IN  /\ after.wait_list = walk.list
        /\ after.token_count = walk.tokens
        /\ \A w \in walk.woken :
              [thread |-> w.thread, serial |-> w.serial, blocked |-> TRUE]
                  \in after.deducted

\* C26: Signal(n) with token_count + n <= max_count adds n tokens and then
\* walks the wait list from the front: each waiter whose need is at most
\* the remaining tokens has it deducted, is notified and removed, each
\* other waiter stays queued in its position.
C26_SignalWakesInListOrder ==
    [][/\ (sem.sig.pc = "idle" /\ sem'.sig.pc = "loop") =>
              sem'.token_count = sem.token_count + sem'.sig.count
       /\ SignalReturned("ORBIS_OK") => SignalWokeInOrder(sem, sem')]_vars

\* Every waiter Signal started from is still waiting or was blocked when
\* Signal deducted for it.
LiveWaiters(before, after) ==
    \A k \in 1 .. Len(before.sig.list0) :
        LET w == before.sig.list0[k]
        IN  \/ Alive(after, w)
            \/ [thread |-> w.thread, serial |-> w.serial, blocked |-> TRUE]
                   \in after.deducted

\* The walk is as claimed whenever no waiter record was dangling.
C26_InListOrderWithLiveWaiters ==
    [][(SignalReturned("ORBIS_OK") /\ LiveWaiters(sem, sem')) =>
            SignalWokeInOrder(sem, sem')]_vars

\* Signal is about to return true from a list that held a dangling record,
\* with another outcome than the walk's.
C26_Witness ==
    /\ sem.created
    /\ sem.sig.pc = "loop"
    /\ sem.sig.k > Len(sem.wait_list)
    /\ \E k \in 1 .. Len(sem.sig.list0) : ~Alive(sem, sem.sig.list0[k])
    /\ LET walk == WakeInOrder(sem.sig.list0, sem.sig.tokens0)
       IN  sem.wait_list # walk.list \/ sem.token_count # walk.tokens

\* -------------------------------------------------------------- C27

\* Waiter a is queued ahead of waiter b by the semaphore's discipline.
Ahead(a, b) ==
    IF sem.is_fifo THEN a.arrival < b.arrival
    ELSE \/ a.priority > b.priority
         \/ a.priority = b.priority /\ a.arrival < b.arrival

\* C27: a FIFO semaphore's wait list is in arrival order; a non-FIFO one's
\* is in non-increasing priority order with waiters of equal priority in
\* arrival order (a new waiter goes right before the first queued waiter of
\* lower priority).
C27_WaitListOrdered ==
    \A i, j \in 1 .. Len(sem.wait_list) :
        i < j => Ahead(sem.wait_list[i], sem.wait_list[j])

\* The order among live waiters of different priorities, and among all
\* waiters of a FIFO semaphore, is the claimed one.
C27_OrderedByPriority ==
    \A i, j \in 1 .. Len(sem.wait_list) :
        LET a == sem.wait_list[i]
            b == sem.wait_list[j]
        IN  (i < j /\ (sem.is_fifo \/ (Alive(sem, a) /\ Alive(sem, b)
                                        /\ a.priority # b.priority)))
                => Ahead(a, b)

\* Two live waiters of equal priority on a non-FIFO semaphore, the later
\* arrival first.
C27_Witness ==
    /\ sem.created
    /\ ~sem.is_fifo
    /\ Len(sem.wait_list) = 2
    /\ LET a == sem.wait_list[1]
           b == sem.wait_list[2]
       IN  /\ Alive(sem, a) /\ Alive(sem, b)
           /\ a.priority = b.priority
           /\ a.arrival > b.arrival

\* ---------------------------------------------------------- event queue

\* Most calls of triggerEvent.
MaxTriggers == 2
\* Most calls of sceKernelWaitEqueue one thread makes.
MaxWaits == 2

EqThreads == {1, 2}

\* A thread calling sceKernelWaitEqueue.  kind is "forever" (timo == nullptr),
\* "poll" (*timo == 0) or "timed"; pc is "idle" outside the call,
\* "predicate" before a read of isTriggered under the mutex, "reset" and
\* "pollreset" between the copy of the event and event.reset(), "asleep"
\* inside m_cond.wait / wait_for.  copied is the event data it copied to ev.
Caller ==
    [pc |-> "idle", kind |-> "none", calls |-> 0, expired |-> FALSE,
     copied |-> 0, out |-> 0, result |-> "none"]

\* EqueueInternal with its one registered event.  mutex is 0 when free, else
\* the thread holding m_mutex.  Ghosts: triggers counts the calls of
\* triggerEvent, the n-th of which hands n as trigger_data; delivered[n] is
\* the number of calls that returned the event with data n; unlocked tells
\* whether isTriggered was read or reset by a thread not holding m_mutex.
EqueueInternal ==
    [created |-> TRUE, isTriggered |-> FALSE, data |-> 0, mutex |-> 0,
     cl |-> [t \in EqThreads |-> Caller],
     triggers |-> 0, delivered |-> [n \in 1 .. MaxTriggers |-> 0],
     unlocked |-> FALSE]

\* EqueueEvent::trigger
trigger(q, trigger_data) == [q EXCEPT !.isTriggered = TRUE, !.data = trigger_data]

\* EqueueEvent::reset
reset(q) == [q EXCEPT !.isTriggered = FALSE, !.data = 0]

\* The call of thread t returns `out` events with `result`.
Return(q, t, out, result) ==
    [q EXCEPT !.cl[t].pc = "idle", !.cl[t].out = out, !.cl[t].result = result,
              !.cl[t].expired = FALSE,
              !.mutex = IF q.mutex = t THEN 0 ELSE q.mutex]

\* getTriggeredEvents up to event.reset(): the read of isTriggered and the
\* copy of the event; the thread goes on at pc `next` if there is one.
getTriggeredEvents(q, t, next) ==
    IF q.isTriggered
    THEN [q EXCEPT !.cl[t].pc = next, !.cl[t].copied = q.data]
    ELSE [q EXCEPT !.cl[t].copied = 0]

\* getTriggeredEvents from event.reset() on: the event is returned.
Deliver(q, t) ==
    LET n == q.cl[t].copied
    IN  [reset(q) EXCEPT !.delivered[n] = @ + 1]

InitEq ==
    /\ NoCompiler
    /\ sem = NoSemaphore
    /\ tc = NoTextureCache
    /\ eq = EqueueInternal

\* sceKernelWaitEqueue with timo == nullptr or *timo > 0: waitForEvents
\* takes m_mutex.
waitForEvents(t) ==
    /\ eq.cl[t].pc = "idle"
    /\ eq.cl[t].calls < MaxWaits
    /\ eq.mutex = 0
    /\ \E kind \in {"forever", "timed"} :
          eq' = [eq EXCEPT !.mutex = t, !.cl[t].pc = "predicate",
                           !.cl[t].kind = kind, !.cl[t].calls = @ + 1,
                           !.cl[t].out = 0, !.cl[t].result = "none"]
    /\ UNCHANGED <<gc, tokens, pos, sem, tc>>

\* The predicate of m_cond.wait / wait_for, run under m_mutex: the read.
\* With no event the thread sleeps, or returns 0 once its time is over,
\* which sceKernelWaitEqueue turns into ETIMEDOUT.
PredicateRead(t) ==
    /\ eq.cl[t].pc = "predicate"
    /\ LET read == getTriggeredEvents(eq, t, "reset")
       IN  IF eq.isTriggered THEN eq' = read
           ELSE IF eq.cl[t].expired THEN eq' = Return(read, t, 0, "ETIMEDOUT")
           ELSE eq' = [read EXCEPT !.cl[t].pc = "asleep", !.mutex = 0]
    /\ UNCHANGED <<gc, tokens, pos, sem, tc>>

\* The predicate's event.reset(); waitForEvents returns 1.
PredicateReset(t) ==
    /\ eq.cl[t].pc = "reset"
    /\ eq' = Return(Deliver(eq, t), t, 1, "ORBIS_OK")
    /\ UNCHANGED <<gc, tokens, pos, sem, tc>>

\* m_cond.wait / wait_for unblocks (notified or not) and takes m_mutex again.
Wakeup(t) ==
    /\ eq.cl[t].pc = "asleep"
    /\ eq.mutex = 0
    /\ eq' = [eq EXCEPT !.mutex = t, !.cl[t].pc = "predicate"]
    /\ UNCHANGED <<gc, tokens, pos, sem, tc>>

\* m_cond.wait_for runs out of time, takes m_mutex again and runs the
\* predicate a last time.
Expire(t) ==
    /\ eq.cl[t].pc = "asleep"
    /\ eq.cl[t].kind = "timed"
    /\ eq.mutex = 0
    /\ eq' = [eq EXCEPT !.mutex = t, !.cl[t].pc = "predicate", !.cl[t].expired = TRUE]
    /\ UNCHANGED <<gc, tokens, pos, sem, tc>>

\* sceKernelWaitEqueue with *timo == 0: getTriggeredEvents is called
\* directly, m_mutex is not taken.  The read.
PollRead(t) ==
    /\ eq.cl[t].pc = "idle"
    /\ eq.cl[t].calls < MaxWaits
    /\ LET called == [eq EXCEPT !.cl[t].kind = "poll", !.cl[t].calls = @ + 1,
                                !.cl[t].out = 0, !.cl[t].result = "none",
                                !.unlocked = TRUE]
           read == getTriggeredEvents(called, t, "pollreset")
       IN  IF eq.isTriggered THEN eq' = read
           ELSE eq' = Return(read, t, 0, "ORBIS_OK")
    /\ UNCHANGED <<gc, tokens, pos, sem, tc>>

\* The direct call's event.reset(); sceKernelWaitEqueue returns ORBIS_OK.
PollReset(t) ==
    /\ eq.cl[t].pc = "pollreset"
    /\ eq' = Return(Deliver(eq, t), t, 1, "ORBIS_OK")
    /\ UNCHANGED <<gc, tokens, pos, sem, tc>>

\* triggerEvent (sceKernelTriggerUserEvent)
triggerEvent ==
    /\ eq.triggers < MaxTriggers
    /\ eq.mutex = 0
    /\ eq' = [trigger(eq, eq.triggers + 1) EXCEPT !.triggers = @ + 1]
    /\ UNCHANGED <<gc, tokens, pos, sem, tc>>

NextEq ==
    \/ \E t \in EqThreads : waitForEvents(t)
    \/ \E t \in EqThreads : PredicateRead(t)
    \/ \E t \in EqThreads : PredicateReset(t)
    \/ \E t \in EqThreads : Wakeup(t)
    \/ \E t \in EqThreads : Expire(t)
    \/ \E t \in EqThreads : PollRead(t)
    \/ \E t \in EqThreads : PollReset(t)
    \/ triggerEvent

SpecEq == InitEq /\ [][NextEq]_vars

\* -------------------------------------------------------------- C23

\* No trigger was returned by two calls.
NeverTwice == \A n \in 1 .. MaxTriggers : eq.delivered[n] <= 1

\* The latest trigger is pending, or being returned, or was returned.
NeverLost ==
    eq.triggers > 0 =>
        \/ eq.isTriggered /\ eq.data = eq.triggers
        \/ \E t \in EqThreads :
              eq.cl[t].pc \in {"reset", "pollreset"} /\ eq.cl[t].copied = eq.triggers
        \/ eq.delivered[eq.triggers] >= 1

\* C23: every read and every reset of the event's triggered state happens
\* under the queue mutex, so no trigger is lost and none is delivered to
\* two callers.
C23_TriggeredStateUnderMutex ==
    /\ ~eq.unlocked
    /\ NeverTwice
    /\ NeverLost

\* As long as no call had a zero timeout, no trigger is lost or doubled.
C23_SafeWithoutZeroTimeout == ~eq.unlocked => (NeverTwice /\ NeverLost)

\* A zero-timeout call and another call both returned the same trigger.
C23_Witness ==
    /\ eq.created
    /\ eq.unlocked
    /\ \E n \in 1 .. MaxTriggers : eq.delivered[n] = 2

\* -------------------------------------------------------------- C28

\* What the finished call of thread t returned is consistent: one event
\* carries the data of a trigger that happened; a call without timeout
\* returns ORBIS_OK with an event, a zero-timeout call ORBIS_OK with 0 or 1
\* events, a timed call ETIMEDOUT exactly when it has no event.
ReturnedAfterTrigger(t) ==
    LET c == eq.cl[t]
    IN  (c.pc = "idle" /\ c.result # "none") =>
            /\ c.out \in {0, 1}
            /\ c.out = 1 => c.copied \in 1 .. eq.triggers
            /\ c.kind = "forever" => (c.result = "ORBIS_OK" /\ c.out = 1)
            /\ c.kind = "poll" => c.result = "ORBIS_OK"
            /\ c.kind = "timed" => (c.result = "ETIMEDOUT") = (c.out = 0)

\* C28: a wait without timeout returns only after the event was triggered;
\* a trigger that happened before the wait is still delivered; each trigger
\* is delivered at most once, so after a delivery a zero-timeout wait
\* reports 0 events and a timed wait ETIMEDOUT until the next trigger.
C28_TriggerDeliveredOnce ==
    /\ \A t \in EqThreads : ReturnedAfterTrigger(t)
    /\ NeverLost
    /\ NeverTwice

\* What every call returns is consistent, whatever the interleaving.
C28_ReturnsConsistent == \A t \in EqThreads : ReturnedAfterTrigger(t)

\* The second trigger happened while a zero-timeout call was between its
\* read and its reset; the reset wiped it and nobody was given it.
C28_Witness ==
    /\ eq.created
    /\ eq.unlocked
    /\ eq.triggers = 2
    /\ ~eq.isTriggered
    /\ eq.delivered[2] = 0
    /\ \A t \in EqThreads : eq.cl[t].pc = "idle"

\* -------------------------------------------------------------- C24

\* The place in the module where the length of array `name` was bound.
BoundAt(log, name) ==
    {j \in 1 .. Len(log) : log[j].op = "setLateConst" /\ log[j].s = name}

\* C24: the length finalize() binds to a register array is at least c + 1
\* for every register code c the finished module accesses, the registers
\* stage input setup writes included.
C24_BoundCoversEveryAccess ==
    \A i \in Instances : \A name \in ArrayNames :
        (pos[i].phase = "finalized" /\ gc[i].cfg.type \in {"VS", "PS", "CS"}) =>
            /\ BoundLengths(gc[i].module, name) # {}
            /\ \A len \in BoundLengths(gc[i].module, name) :
                  \A c \in StaticRefs(gc[i].module, 1, name) : len >= c + 1

\* The bound length covers every access made before the binding.
C24_BoundCoversEarlierAccesses ==
    \A i \in Instances : \A name \in ArrayNames :
        (pos[i].phase = "finalized" /\ gc[i].cfg.type \in {"VS", "PS", "CS"}) =>
            \A j \in BoundAt(gc[i].module, name) :
                \A k \in 1 .. j :
                    (/\ gc[i].module[k].op = "OpAccessChain"
                     /\ gc[i].module[k].s = name
                     /\ gc[i].module[k].b = 0)
                        => gc[i].module[j].b >= gc[i].module[k].a + 1

\* A finalized compute program whose input setup stored to v2 after the
\* VGPR length had been bound to 1.
C24_Witness ==
    /\ pos[1].phase = "finalized"
    /\ gc[1].cfg.type = "CS"
    /\ BoundLengths(gc[1].module, "v") = {1}
    /\ 2 \in StaticRefs(gc[1].module, 1, "v")

\* ---------------------------------------------------------------------
\* Texture cache (video_core/texture_cache/texture_cache.cpp): images
\* registered per guest page, the per-page count of tracked images and the
\* protection of the guest pages.
\* ---------------------------------------------------------------------

\* static constexpr u64 PageBits = 14
PageBits == 14

\* 1 << PageBits
PageSize == 2 ^ PageBits

\* Bound on the number of images FindDisplayBuffer creates.
MaxImages == 2

\* Guest addresses and sizes in half pages, so that images start and end
\* inside pages, share pages and span up to three of them.
GuestAddrs == {k * (PageSize \div 2) : k \in 0 .. 3}

GuestSizes == {k * (PageSize \div 2) : k \in 1 .. 3}

\* Addresses a guest write can fault on: one inside every page.
WriteAddrs == {(k * PageSize) + (PageSize \div 4) : k \in 0 .. 2}

\* The guest pages the addresses above reach.
Pages == 0 .. 2

\* A new image: its address, its size, and the flags its constructor sets.
Image(cpu_addr, guest_size_bytes, flags) ==
    [cpu_addr |-> cpu_addr, guest_size_bytes |-> guest_size_bytes,
     flags |-> flags]

\* The cache after construction.  cached_pages is the interval map (no
\* segment is kept for a count of 0); prot is the protection mprotect set.
TextureCache ==
    [created |-> TRUE,
     slot_images |-> << >>,
     page_table |-> [p \in Pages |-> << >>],
     cached_pages |-> [p \in Pages |-> 0],
     prot |-> [p \in Pages |-> "RW"],
     crashed |-> FALSE]

\* ForEachPage: the page indices addr >> PageBits .. (addr + size - 1) >>
\* PageBits.
ForEachPage(addr, size) ==
    (addr \div PageSize) .. ((addr + size - 1) \div PageSize)

\* ForEachImageInRegion, pages page .. page_end: the images of the page
\* table in visiting order, each once (the Picked flag).
RECURSIVE PickImages(_, _, _, _)
PickImages(c, page, page_end, images) ==
    IF page > page_end THEN images
    ELSE PickImages(c, page + 1, page_end,
             IF page \in Pages
             THEN images \o SelectSeq(c.page_table[page],
                      LAMBDA id : \A k \in 1 .. Len(images) : images[k] # id)
             ELSE images)

ForEachImageInRegion(c, cpu_addr, size) ==
    PickImages(c, cpu_addr \div PageSize, (cpu_addr + size - 1) \div PageSize,
               << >>)

\* UpdatePagesCachedCount: a positive delta is added before the segments of
\* the interval are visited and a negative one after; a visited segment whose
\* count equals delta is protected, one whose count equals -delta is
\* unprotected, any other is asserted to be non-negative.
UpdatePagesCachedCount(c, addr, size, delta) ==
    LET num_pages == ((addr + size - 1) \div PageSize) - (addr \div PageSize) + 1
        page_start == addr \div PageSize
        page_end == page_start + num_pages
        pages_interval == {p \in Pages : page_start <= p /\ p < page_end}
        added == [p \in Pages |->
                     IF p \in pages_interval THEN c.cached_pages[p] + delta
                     ELSE c.cached_pages[p]]
        count == IF delta > 0 THEN added ELSE c.cached_pages
        range == {p \in pages_interval : count[p] # 0}
    IN  [c EXCEPT
            !.cached_pages = added,
            !.prot = [p \in Pages |->
                         IF p \in range /\ delta > 0 /\ count[p] = delta
                         THEN "NONE"
                         ELSE IF p \in range /\ delta < 0 /\ count[p] = 0 - delta
                         THEN "RW"
                         ELSE c.prot[p]],
            !.crashed = @ \/ \E p \in range :
                                 /\ ~(delta > 0 /\ count[p] = delta)
                                 /\ ~(delta < 0 /\ count[p] = 0 - delta)
                                 /\ count[p] < 0]

TrackImage_Always(c, image_id) ==
    LET image == c.slot_images[image_id]
    IN  UpdatePagesCachedCount(
            [c EXCEPT !.slot_images[image_id].flags = @ \cup {"Tracked"}],
            image.cpu_addr, image.guest_size_bytes, 1)

TrackImage(c, image_id) ==
    LET image == c.slot_images[image_id]
    IN  IF "Tracked" \in image.flags THEN c
        ELSE UpdatePagesCachedCount(
                 [c EXCEPT !.slot_images[image_id].flags = @ \cup {"Tracked"}],
                 image.cpu_addr, image.guest_size_bytes, 1)

UntrackImage(c, image_id) ==
    LET image == c.slot_images[image_id]
    IN  IF "Tracked" \notin image.flags THEN c
        ELSE UpdatePagesCachedCount(
                 [c EXCEPT !.slot_images[image_id].flags = @ \ {"Tracked"}],
                 image.cpu_addr, image.guest_size_bytes, 0 - 1)

\* RegisterImage: sets Registered and appends the image to the page table
\* entry of every page it touches.
RegisterImage(c, image_id) ==
    LET image == c.slot_images[image_id]
    IN  [c EXCEPT
            !.slot_images[image_id].flags = @ \cup {"Registered"},
            !.page_table = [p \in Pages |->
                IF p \in ForEachPage(image.cpu_addr, image.guest_size_bytes)
                THEN Append(@[p], image_id) ELSE @[p]]]

\* RefreshImage: clears CpuModified and reads the guest memory of the image
\* for the upload.  A read of a page protected with PROT_NONE faults, and
\* GuestFaultSignalHandler ends the program on a read fault.
RefreshImage(c, image_id) ==
    LET image == c.slot_images[image_id]
    IN  [c EXCEPT
            !.slot_images[image_id].flags = @ \ {"CpuModified"},
            !.crashed = @ \/ \E p \in ForEachPage(image.cpu_addr,
                                                  image.guest_size_bytes) :
                                 p \in Pages /\ c.prot[p] = "NONE"]

\* The body of OnCpuWrite for the images of the region, in order.
RECURSIVE Invalidate(_, _)
Invalidate(c, images) ==
    IF images = << >> THEN c
    ELSE Invalidate(
             UntrackImage(
                 [c EXCEPT !.slot_images[Head(images)].flags =
                               @ \cup {"CpuModified"}],
                 Head(images)),
             Tail(images))

InitTc ==
    /\ NoCompiler
    /\ sem = NoSemaphore
    /\ eq = NoEqueue
    /\ tc = TextureCache

\* OnCpuWrite(address): every image of the written page is marked
\* CpuModified and untracked.
OnCpuWrite(address) ==
    /\ tc.created /\ ~tc.crashed
    /\ LET address_aligned == (address \div PageSize) * PageSize
       IN  tc' = Invalidate(tc, ForEachImageInRegion(tc, address_aligned, PageSize))
    /\ UNCHANGED <<gc, tokens, pos, sem, eq>>

\* FindDisplayBuffer(group, cpu_address): looks the image up by its address,
\* creates and registers it when there is none, and refreshes and tracks it
\* when it is CpuModified.  The size and the initial flags of a new image
\* come from the Image constructor.
FindDisplayBuffer(size_in_bytes, cpu_address, guest_size_bytes, flags) ==
    /\ tc.created /\ ~tc.crashed
    /\ LET image_ids == SelectSeq(
               ForEachImageInRegion(tc, cpu_address, size_in_bytes),
               LAMBDA id : tc.slot_images[id].cpu_addr = cpu_address)
           image_id == IF image_ids = << >> THEN Len(tc.slot_images) + 1
                       ELSE image_ids[1]
           found == IF image_ids = << >>
                    THEN RegisterImage(
                             [tc EXCEPT !.slot_images = Append(@,
                                 Image(cpu_address, guest_size_bytes, flags))],
                             image_id)
                    ELSE tc
           refreshed == RefreshImage(found, image_id)
       IN  /\ image_ids = << >> => Len(tc.slot_images) < MaxImages
           /\ tc' = IF Len(image_ids) > 1 THEN [tc EXCEPT !.crashed = TRUE]
                    ELSE IF "CpuModified" \notin found.slot_images[image_id].flags
                    THEN found
                    ELSE IF refreshed.crashed THEN refreshed
                    ELSE TrackImage(refreshed, image_id)
    /\ UNCHANGED <<gc, tokens, pos, sem, eq>>

\* TrackImage and UntrackImage called on an image of the cache.
Track(image_id) ==
    /\ tc.created /\ ~tc.crashed
    /\ image_id \in 1 .. Len(tc.slot_images)
    /\ tc' = TrackImage(tc, image_id)
    /\ UNCHANGED <<gc, tokens, pos, sem, eq>>

Untrack(image_id) ==
    /\ tc.created /\ ~tc.crashed
    /\ image_id \in 1 .. Len(tc.slot_images)
    /\ tc' = UntrackImage(tc, image_id)
    /\ UNCHANGED <<gc, tokens, pos, sem, eq>>

NextTc ==
    \/ \E size_in_bytes \in GuestSizes, cpu_address \in GuestAddrs,
          guest_size_bytes \in GuestSizes, flags \in SUBSET {"CpuModified"} :
          FindDisplayBuffer(size_in_bytes, cpu_address, guest_size_bytes, flags)
    \/ \E address \in WriteAddrs : OnCpuWrite(address)
    \/ \E image_id \in 1 .. MaxImages : Track(image_id)
    \/ \E image_id \in 1 .. MaxImages : Untrack(image_id)

SpecTc == InitTc /\ [][NextTc]_vars

\* An image spans a page when its bytes [cpu_addr, cpu_addr + size) meet the
\* bytes of the page.
Spans(image, page) ==
    /\ image.cpu_addr < (page + 1) * PageSize
    /\ image.cpu_addr + image.guest_size_bytes > page * PageSize

TrackedSpanning(c, page) ==
    {id \in 1 .. Len(c.slot_images) :
        /\ "Tracked" \in c.slot_images[id].flags
        /\ Spans(c.slot_images[id], page)}

CachedPagesExact(c) ==
    \A p \in Pages :
        /\ c.cached_pages[p] = Cardinality(TrackedSpanning(c, p))
        /\ c.cached_pages[p] >= 0
        /\ (c.prot[p] = "NONE") <=> (c.cached_pages[p] > 0)

TrackingIdempotent(c) ==
    \A id \in 1 .. Len(c.slot_images) :
        /\ TrackImage(TrackImage(c, id), id) = TrackImage(c, id)
        /\ UntrackImage(UntrackImage(c, id), id) = UntrackImage(c, id)
        /\ CachedPagesExact(TrackImage(c, id))
        /\ CachedPagesExact(UntrackImage(c, id))

ProtectedOnTransition ==
    \A p \in Pages :
        /\ (tc.prot[p] = "RW" /\ tc'.prot[p] = "NONE") =>
               (tc.cached_pages[p] = 0 /\ tc'.cached_pages[p] > 0)
        /\ (tc.prot[p] = "NONE" /\ tc'.prot[p] = "RW") =>
               (tc.cached_pages[p] > 0 /\ tc'.cached_pages[p] = 0)
        /\ (tc.cached_pages[p] = 0 /\ tc'.cached_pages[p] > 0) =>
               tc'.prot[p] = "NONE"
        /\ (tc.cached_pages[p] > 0 /\ tc'.cached_pages[p] = 0) =>
               tc'.prot[p] = "RW"

\* C25: after any sequence of FindDisplayBuffer, TrackImage, UntrackImage and
\* OnCpuWrite, the cached count of every guest page equals the number of
\* images with the Tracked flag that span the page and is never negative; the
\* page is protected exactly when the count is greater than zero, protected
\* when the count leaves 0 and unprotected when it returns to 0; tracking a
\* tracked image and untracking an untracked one change nothing.
C25_CachedCountMatchesTrackedImages ==
    /\ [](tc.created => (CachedPagesExact(tc) /\ TrackingIdempotent(tc)))
    /\ [][tc.created => ProtectedOnTransition]_vars

\* Two images share a page; a guest write to another page of one of them
\* untracked it, and the shared page is still counted once and protected
\* while the written page is writable again.
C25_Witness ==
    /\ tc.created
    /\ \E p \in Pages, q \in Pages, a \in 1 .. Len(tc.slot_images),
          b \in 1 .. Len(tc.slot_images) :
          /\ a # b /\ p # q
          /\ Spans(tc.slot_images[a], p) /\ Spans(tc.slot_images[b], p)
          /\ Spans(tc.slot_images[b], q)
          /\ "Tracked" \in tc.slot_images[a].flags
          /\ tc.slot_images[b].flags = {"Registered", "CpuModified"}
          /\ tc.cached_pages[p] = 1 /\ tc.prot[p] = "NONE"
          /\ tc.cached_pages[q] = 0 /\ tc.prot[q] = "RW"

====
